---- MODULE Spec2Model ----
(***************************************************************************)
(* A model of the Cubent compiler (src/lexer.py, src/compiler.py): the      *)
(* lexer, the recursive-descent parser that builds each function's IR, the *)
(* emitter that type-checks the IR and writes the .mcfunction lines, and    *)
(* the compile() driver with its version gate and output directory.        *)
(*                                                                         *)
(* Source text is a sequence of one-character strings.  Python exceptions  *)
(* that the code does not catch are outcomes of their own ("raise").       *)
(***************************************************************************)
EXTENDS Integers, Sequences, FiniteSets, TLC

VARIABLES
    text,       \* Lexer.text of the lexer under observation
    lx,         \* Lexer.offset / line / column
    result,     \* outcome of the last next() / lookahead() call
    call,       \* the last call: "init", "next" or "lookahead"
    prevCall,   \* the call before it
    before,     \* lx as it was when the last call started
    prevResult, \* outcome of the call before the last one
    nexts,      \* outcomes of the next() calls so far, in order
    mcversion,      \* compile(): the mcversion argument
    source_path,    \* the source_path argument: the directories
    disk,           \* the output directory out
    pc,             \* where compile() is: "start", "parse", "emit", "done"
    returned,       \* "None" while it runs, then "True", "False" or the
                    \* name of the exception that left it
    self_error,     \* Compiler.error
    self_functions, \* Compiler.functions
    origins,        \* the source text each function's contexts hold
    cursor,         \* the directory, file and function the loops are at
    helpers,        \* number of helper files named so far
    emitted,        \* outcome of each write_cubent_function call so far
    applied,    \* a function observed alone: its name and its arguments
    outcome     \* what that function returned, once it has been called

lexvars == <<text, lx, result, call, prevCall, before, prevResult, nexts>>

pipevars ==
    <<mcversion, source_path, disk, pc, returned, self_error, self_functions,
      origins, cursor, helpers, emitted>>

unitvars == <<applied, outcome>>

vars == <<lexvars, pipevars, unitvars>>

-----------------------------------------------------------------------------
(* Characters                                                              *)

\* peekch() returns "\0" beyond the end of the text; the same character can
\* also occur inside a text.
NUL == "NUL"

Digits == {"0", "1", "2", "3", "4", "5", "6", "7", "8", "9"}

LowerLetters ==
    {"a", "b", "c", "d", "e", "f", "g", "h", "i", "j", "k", "l", "m",
     "n", "o", "p", "q", "r", "s", "t", "u", "v", "w", "x", "y", "z"}

UpperLetters ==
    {"A", "B", "C", "D", "E", "F", "G", "H", "I", "J", "K", "L", "M",
     "N", "O", "P", "Q", "R", "S", "T", "U", "V", "W", "X", "Y", "Z"}

\* str.isspace(), str.isdigit(), str.isalpha(), str.isalnum() on the ASCII
\* characters the model's texts are made of
isspace(ch) == ch \in {" ", "\n", "\r", "\t"}
isdigit(ch) == ch \in Digits
isalpha(ch) == ch \in LowerLetters \cup UpperLetters
isalnum(ch) == isalpha(ch) \/ isdigit(ch)

\* str.lower() of one character
lower(ch) ==
    CASE ch = "A" -> "a" [] ch = "B" -> "b" [] ch = "C" -> "c" [] ch = "D" -> "d"
      [] ch = "E" -> "e" [] ch = "F" -> "f" [] ch = "G" -> "g" [] ch = "H" -> "h"
      [] ch = "I" -> "i" [] ch = "J" -> "j" [] ch = "K" -> "k" [] ch = "L" -> "l"
      [] ch = "M" -> "m" [] ch = "N" -> "n" [] ch = "O" -> "o" [] ch = "P" -> "p"
      [] ch = "Q" -> "q" [] ch = "R" -> "r" [] ch = "S" -> "s" [] ch = "T" -> "t"
      [] ch = "U" -> "u" [] ch = "V" -> "v" [] ch = "W" -> "w" [] ch = "X" -> "x"
      [] ch = "Y" -> "y" [] ch = "Z" -> "z" [] OTHER -> ch

DigitValue(ch) ==
    CASE ch = "0" -> 0 [] ch = "1" -> 1 [] ch = "2" -> 2 [] ch = "3" -> 3
      [] ch = "4" -> 4 [] ch = "5" -> 5 [] ch = "6" -> 6 [] ch = "7" -> 7
      [] ch = "8" -> 8 [] ch = "9" -> 9

DigitChar(d) ==
    CASE d = 0 -> "0" [] d = 1 -> "1" [] d = 2 -> "2" [] d = 3 -> "3"
      [] d = 4 -> "4" [] d = 5 -> "5" [] d = 6 -> "6" [] d = 7 -> "7"
      [] d = 8 -> "8" [] d = 9 -> "9"

Contains(s, ch) == \E i \in 1..Len(s) : s[i] = ch

-----------------------------------------------------------------------------
(* Decimal strings.  Python integers are unbounded, so the range checks of *)
(* read_number are decided on the digits, not on a machine integer.        *)

RECURSIVE StripZeros(_)
StripZeros(ds) ==
    IF Len(ds) > 1 /\ ds[1] = "0" THEN StripZeros(Tail(ds)) ELSE ds

RECURSIVE DigitsLE(_, _)
\* lexicographic <= on digit strings of equal length
DigitsLE(a, b) ==
    IF a = <<>> THEN TRUE
    ELSE IF DigitValue(a[1]) < DigitValue(b[1]) THEN TRUE
    ELSE IF DigitValue(a[1]) > DigitValue(b[1]) THEN FALSE
    ELSE DigitsLE(Tail(a), Tail(b))

\* int(a) <= int(b) for non-empty digit strings a, b
DecLE(a, b) ==
    LET x == StripZeros(a)
        y == StripZeros(b)
    IN  IF Len(x) # Len(y) THEN Len(x) < Len(y) ELSE DigitsLE(x, y)

\* str(n) of a non-negative integer
RECURSIVE NatStr(_)
NatStr(n) ==
    IF n < 10 THEN <<DigitChar(n)>>
    ELSE Append(NatStr(n \div 10), DigitChar(n % 10))

\* str(n) of an integer: a minus sign and the digits of the magnitude
PyStr(n) ==
    IF n >= 0 THEN NatStr(n)
    ELSE LET d == (10 - (n % 10)) % 10          \* last digit of -n
             q == 0 - ((n + d) \div 10)         \* -n without its last digit
         IN  <<"-">> \o (IF q = 0 THEN <<>> ELSE NatStr(q)) \o <<DigitChar(d)>>

-----------------------------------------------------------------------------
(* Lexer (src/lexer.py)                                                    *)

\* Lexeme.body of a lexeme built without a body (None)
NoBody == <<"None">>

Position(L) == [offset |-> L.offset, line |-> L.line, column |-> L.column]

NoPosition == [offset |-> -1, line |-> -1, column |-> -1]

\* Lexeme(type, position, body); type "None" is the untyped lexeme
Lexeme(type, position, body) ==
    [kind |-> "lexeme", type |-> type, position |-> position, body |-> body]

\* next() falling off its if-chain returns None instead of a Lexeme
ReturnsNone ==
    [kind |-> "none", type |-> "None", position |-> NoPosition, body |-> NoBody]

\* an exception leaves next(); nothing in the program catches it
Raises(exc) ==
    [kind |-> "raise", type |-> exc, position |-> NoPosition, body |-> NoBody]

keywords ==
    { <<"n","a","m","e","s","p","a","c","e">>, <<"i","m","p","o","r","t">>,
      <<"a","s">>, <<"f","u","n","c","t","i","o","n">>,
      <<"m","c","f","u","n","c","t","i","o","n">>, <<"v","a","r">>,
      <<"i","f">>, <<"e","l","s","e">> }

types ==
    { <<"V","o","i","d">>, <<"A","n","y">>, <<"B","y","t","e">>,
      <<"B","o","o","l","e","a","n">>, <<"S","h","o","r","t">>, <<"I","n","t">>,
      <<"L","o","n","g">>, <<"F","l","o","a","t">>, <<"D","o","u","b","l","e">>,
      <<"S","t","r","i","n","g">>, <<"L","i","s","t">>,
      <<"C","o","m","p","o","u","n","d">>,
      <<"B","y","t","e","A","r","r","a","y">>, <<"I","n","t","A","r","r","a","y">>,
      <<"L","o","n","g","A","r","r","a","y">> }

LexerInit == [offset |-> 0, line |-> 0, column |-> 0]

peekch(t, L) == IF L.offset < Len(t) THEN t[L.offset + 1] ELSE NUL

consume(t, L) ==
    IF peekch(t, L) = "\n"
    THEN [offset |-> L.offset + 1, line |-> L.line + 1, column |-> 0]
    ELSE [offset |-> L.offset + 1, line |-> L.line, column |-> L.column + 1]

RECURSIVE skip_space(_, _)
skip_space(t, L) ==
    IF isspace(peekch(t, L)) THEN skip_space(t, consume(t, L)) ELSE L

\* while self.peekch() not in "\r\n\0": self.consume()
RECURSIVE SkipLineComment(_, _)
SkipLineComment(t, L) ==
    IF peekch(t, L) \notin {"\r", "\n", NUL}
    THEN SkipLineComment(t, consume(t, L))
    ELSE L

\* the block-comment loop: runs to the first "*/" or to the end of the text
RECURSIVE SkipBlockComment(_, _)
SkipBlockComment(t, L) ==
    IF peekch(t, L) = NUL THEN L
    ELSE LET ch == peekch(t, L)
             L1 == consume(t, L)
         IN  IF ch = "*" /\ peekch(t, L1) = "/"
             THEN consume(t, L1)
             ELSE SkipBlockComment(t, L1)

\* while self.peekch().isdigit(): body += self.peekch(); self.consume()
RECURSIVE ConsumeDigits(_, _)
ConsumeDigits(t, L) ==
    IF isdigit(peekch(t, L)) THEN ConsumeDigits(t, consume(t, L)) ELSE L

RECURSIVE ConsumeAlnum(_, _)
ConsumeAlnum(t, L) ==
    IF isalnum(peekch(t, L)) THEN ConsumeAlnum(t, consume(t, L)) ELSE L

\* the characters consumed between two lexer states
Consumed(t, L0, L1) == SubSeq(t, L0.offset + 1, L1.offset)

ByteMax == <<"1","2","7">>
ShortMax == <<"3","2","7","6","7">>
\* a variant of IntMax that is one too large
IntMaxOneMore == <<"2","1","4","7","4","8","3","6","4","8">>

IntMax == <<"2","1","4","7","4","8","3","6","4","7">>
LongMax ==
    <<"9","2","2","3","3","7","2","0","3","6","8","5","4","7","7","5","8","0","7">>

\* float(body) + 3.4E38 > 6.8E38, decided on the integer part of body: more
\* than 39 digits, or 39 digits above 34 followed by 37 zeros
FloatMaxDigits ==
    <<"3","4">> \o [i \in 1..37 |-> "0"]

\* body.find("."), counted from 1; Len(body) + 1 when there is none
DotIndex(body) ==
    IF Contains(body, ".")
    THEN CHOOSE i \in 1..Len(body) :
             body[i] = "." /\ \A j \in 1..(i - 1) : body[j] # "."
    ELSE Len(body) + 1

IntegerPart(body) ==
    IF DotIndex(body) = 1 THEN <<"0">> ELSE SubSeq(body, 1, DotIndex(body) - 1)

FractionPart(body) == SubSeq(body, DotIndex(body) + 1, Len(body))

\* float(body) raises ValueError when body holds no digit at all
FloatRaises(body) == \A i \in 1..Len(body) : ~isdigit(body[i])

FloatTooLarge(body) == ~DecLE(IntegerPart(body), FloatMaxDigits)

read_number(t, L) ==
    LET position == Position(L)
        L1 == ConsumeDigits(t, L)
        L2 == IF peekch(t, L1) = "."
              THEN ConsumeDigits(t, consume(t, L1))
              ELSE L1
        body == Consumed(t, L, L2)
        ch == lower(peekch(t, L2))
        hasDot == Contains(body, ".")
        invalid == [lexeme |-> Lexeme("None", position, body), lx |-> L2]
        suffixed(type) ==
            [lexeme |-> Lexeme(type, position, Append(body, ch)),
             lx |-> consume(t, L2)]
    IN  CASE ch = "b" ->
                IF hasDot \/ ~DecLE(body, ByteMax) THEN invalid
                ELSE suffixed("BYTE")
          [] ch = "s" ->
                IF hasDot \/ ~DecLE(body, ShortMax) THEN invalid
                ELSE suffixed("SHORT")
          [] ch = "l" ->
                IF hasDot \/ ~DecLE(body, LongMax) THEN invalid
                ELSE suffixed("LONG")
          [] ch = "f" ->
                IF FloatRaises(body)
                THEN [lexeme |-> Raises("ValueError"), lx |-> L2]
                ELSE IF FloatTooLarge(body) THEN invalid
                ELSE suffixed("FLOAT")
          [] ch = "d" -> suffixed("DOUBLE")
          [] OTHER ->
                IF hasDot
                THEN [lexeme |-> Lexeme("DOUBLE", position, body), lx |-> L2]
                ELSE IF DecLE(body, IntMax)
                THEN [lexeme |-> Lexeme("INT", position, body), lx |-> L2]
                ELSE invalid

\* the while loop of read_string: [closed, lx]; closed is FALSE when the loop
\* returned the untyped lexeme
RECURSIVE ReadStringLoop(_, _, _)
ReadStringLoop(t, L, delimiter) ==
    LET ch == peekch(t, L)
    IN  IF ch = delimiter THEN [closed |-> TRUE, lx |-> L]
        ELSE IF ch \in {"\r", "\n", NUL} THEN [closed |-> FALSE, lx |-> L]
        ELSE LET L1 == consume(t, L)
             IN  IF ch = "\\"
                 THEN IF peekch(t, L1) \in {"\\", "\"", "'"}
                      THEN ReadStringLoop(t, consume(t, L1), delimiter)
                      ELSE [closed |-> FALSE, lx |-> L1]
                 ELSE ReadStringLoop(t, L1, delimiter)

read_string(t, L) ==
    LET position == Position(L)
        delimiter == peekch(t, L)
        r == ReadStringLoop(t, consume(t, L), delimiter)
    IN  IF r.closed
        THEN [lexeme |-> Lexeme("STRING", position,
                                Consumed(t, L, consume(t, r.lx))),
              lx |-> consume(t, r.lx)]
        ELSE [lexeme |-> Lexeme("None", position, Consumed(t, L, r.lx)),
              lx |-> r.lx]

read_identifier(t, L) ==
    LET position == Position(L)
        L1 == ConsumeAlnum(t, L)
        body == Consumed(t, L, L1)
        lexemeType ==
            IF body \in keywords THEN "KEYWORD"
            ELSE IF body \in types THEN "TYPE"
            ELSE IF body = <<"t","r","u","e">> \/ body = <<"f","a","l","s","e">>
            THEN "BOOLEAN"
            ELSE "IDENTIFIER"
    IN  [lexeme |-> Lexeme(lexemeType, position, body), lx |-> L1]

\* the "=" branch of next(): "=" or "=="
read_equals(t, L0) ==
    LET L1 == consume(t, L0)
    IN  IF peekch(t, L1) = "="
        THEN [lexeme |-> Lexeme("None", Position(L0), <<"=", "=">>),
              lx |-> consume(t, L1)]
        ELSE [lexeme |-> Lexeme("None", Position(L0), <<"=">>), lx |-> L1]

\* a variant of read_other that forgets to consume the byte
read_other_no_consume(t, L0) ==
    [lexeme |-> Lexeme("None", Position(L0), <<peekch(t, L0)>>), lx |-> L0]

\* the last branch of next(): any other byte is a lexeme of its own
read_other(t, L0) ==
    [lexeme |-> Lexeme("None", Position(L0), <<peekch(t, L0)>>),
     lx |-> consume(t, L0)]

\* Lexer.next(): the lexeme (or None, or the exception) and the lexer state
\* at the moment the call ends
RECURSIVE next(_, _)
next(t, L) ==
    LET L0 == skip_space(t, L)
        ch == peekch(t, L0)
    IN  CASE ch = NUL -> [lexeme |-> Lexeme("EOF", Position(L0), NoBody), lx |-> L0]
          [] ch = "/" ->
                LET L1 == consume(t, L0)
                    ch1 == peekch(t, L1)
                IN  CASE ch1 = "/" -> next(t, SkipLineComment(t, consume(t, L1)))
                      [] ch1 = "*" -> next(t, SkipBlockComment(t, consume(t, L1)))
                      [] OTHER -> [lexeme |-> ReturnsNone, lx |-> L1]
          [] ch = "=" -> read_equals(t, L0)
          [] isdigit(ch) \/ ch = "." -> read_number(t, L0)
          [] ch \in {"\"", "'"} -> read_string(t, L0)
          [] isalpha(ch) -> read_identifier(t, L0)
          [] OTHER -> read_other(t, L0)

\* Lexer.lookahead(): next(), then the saved offset, line and column are put
\* back; an exception in next() skips the restoring assignment
lookahead(t, L) ==
    LET r == next(t, L)
    IN  IF r.lexeme.kind = "raise" THEN r
        ELSE [lexeme |-> r.lexeme, lx |-> L]

-----------------------------------------------------------------------------
(* Parser (src/compiler.py): results, errors, IR commands                  *)

\* the spellings the parser compares lexeme bodies with
kw_import == <<"i","m","p","o","r","t">>
kw_as == <<"a","s">>
kw_namespace == <<"n","a","m","e","s","p","a","c","e">>
kw_load == <<"l","o","a","d">>
kw_tick == <<"t","i","c","k">>
kw_function == <<"f","u","n","c","t","i","o","n">>
kw_mcfunction == <<"m","c","f","u","n","c","t","i","o","n">>
kw_var == <<"v","a","r">>
kw_if == <<"i","f">>
kw_true == <<"t","r","u","e">>

\* one-character string to TLA+ string, for the emitted lines
RECURSIVE Str(_)
Str(cs) == IF cs = <<>> THEN "" ELSE cs[1] \o Str(Tail(cs))

\* ".".join(parts), as a sequence of characters
RECURSIVE JoinDots(_)
JoinDots(parts) ==
    IF parts = <<>> THEN <<>>
    ELSE IF Len(parts) = 1 THEN parts[1]
    ELSE parts[1] \o <<".">> \o JoinDots(Tail(parts))

\* len(source_code.splitlines()): "\n", "\r" and "\r\n" end a line, and a
\* last line needs no terminator
LineCount(t) ==
    LET ends == { i \in 1..Len(t) :
                    \/ t[i] = "\n"
                    \/ t[i] = "\r" /\ ~(i < Len(t) /\ t[i + 1] = "\n") }
    IN  Cardinality(ends)
        + (IF t # <<>> /\ t[Len(t)] \notin {"\n", "\r"} THEN 1 ELSE 0)

NoError ==
    [kind |-> "None", position |-> NoPosition, message |-> "", args |-> <<>>,
     function_path |-> NoBody]

\* an exception that nothing catches
Exception(exc) ==
    [kind |-> exc, position |-> NoPosition, message |-> "", args |-> <<>>,
     function_path |-> NoBody]

\* CompilationError(context, message): __init__ indexes the source lines with
\* the position's line and raises IndexError when there is no such line
CompilationError(t, function_path, position, message, args) ==
    IF position.line < LineCount(t)
    THEN [kind |-> "CompilationError", position |-> position,
          message |-> message, args |-> args, function_path |-> function_path]
    ELSE Exception("IndexError")

\* The Lexer object as the parser uses it: its text, and the outcomes of its
\* next() calls in order, up to the first that is the end of the text, None
\* or an exception.  The position of the lexer is then the number of the
\* next() call to come; at the end of the text next() returns EOF again.
\* The calls are made in blocks of BlockSize, which keeps the evaluation of
\* a long text shallow.
BlockSize == 8

StreamEnds(lexeme) == lexeme.kind # "lexeme" \/ lexeme.type = "EOF"

Cons(lexeme, block) == [block EXCEPT !.lexemes = <<lexeme>> \o @]

\* the next n calls from L: [lexemes, lx, done]
RECURSIVE Block(_, _, _)
BlockFrom(source_code, r, n) ==
    IF StreamEnds(r.lexeme)
    THEN [lexemes |-> <<r.lexeme>>, lx |-> r.lx, done |-> TRUE]
    ELSE Cons(r.lexeme, Block(source_code, r.lx, n - 1))

Block(source_code, L, n) ==
    IF n = 0 THEN [lexemes |-> <<>>, lx |-> L, done |-> FALSE]
    ELSE BlockFrom(source_code, next(source_code, L), n)

RECURSIVE Stream(_, _)
StreamFrom(source_code, block) ==
    IF block.done THEN block.lexemes
    ELSE block.lexemes \o Stream(source_code, block.lx)

Stream(source_code, L) ==
    StreamFrom(source_code, Block(source_code, L, BlockSize))

Lexer(source_code) == [text |-> source_code, stream |-> Stream(source_code, LexerInit)]

StreamAt(stream, k) == stream[IF k > Len(stream) THEN Len(stream) ELSE k]

\* lexer.next() and lexer.lookahead() in the parser
lexer_next(lexer, k) ==
    [lexeme |-> StreamAt(lexer.stream, k), lx |-> k + 1]

lexer_lookahead(lexer, k) ==
    [lexeme |-> StreamAt(lexer.stream, k), lx |-> k]

\* the outcome of a parsing function: "ok" (returned True), "fail" (returned
\* False with self.error set) or "raise" (left by an exception)
Ok(L, commands) ==
    [st |-> "ok", lx |-> L, commands |-> commands, error |-> NoError]

Raise(exc, L, commands) ==
    [st |-> "raise", lx |-> L, commands |-> commands, error |-> Exception(exc)]

\* self.error = CompilationError(...); return False
Fail(t, function_path, position, message, args, L, commands) ==
    LET e == CompilationError(t.text, function_path, position, message, args)
    IN  [st |-> IF e.kind = "CompilationError" THEN "fail" ELSE "raise",
         lx |-> L, commands |-> commands, error |-> e]

\* CompilationError(context, lexer.text, message): one argument too many
FailTypeError(L, commands) == Raise("TypeError", L, commands)

\* what using the result of next() / lookahead() as a lexeme raises when it
\* is none: the exception of the lexer, or AttributeError on None
NotLexeme(r) == r.lexeme.kind # "lexeme"
LexException(r) ==
    IF r.lexeme.kind = "raise" THEN r.lexeme.type ELSE "AttributeError"

\* Command(context, operation, data): data is spread over fields of fixed
\* type (name, type and value, n for argc or index, path, block)
Command(position, operation) ==
    [position |-> position, operation |-> operation, name |-> <<>>,
     type |-> "", value |-> <<>>, n |-> 0, path |-> <<>>, block |-> <<>>]

Load(position, type, value) ==
    [Command(position, "LOAD") EXCEPT !.type = type, !.value = value]

Named(position, operation, name) ==
    [Command(position, operation) EXCEPT !.name = name]

Call(position, path, argc) ==
    [Command(position, "CALL") EXCEPT !.path = path, !.n = argc]

GetArg(position, index) ==
    [Command(position, "GET_ARG") EXCEPT !.n = index]

DoIf(position, block_commands) ==
    [Command(position, "DO_IF") EXCEPT !.block = block_commands]

\* Compiler.operators, lowest index first
operators ==
    << { <<"+">>, <<"-">> }, { <<"*">>, <<"/">> },
       { <<"=","=">>, <<"!","=">> }, { <<"|","|">>, <<"&","&">> } >>

\* [operator for operators in self.operators[precedence:] for operator in operators]
OperatorsFrom(precedence) ==
    UNION { operators[i] : i \in (precedence + 1)..Len(operators) }

\* Compiler.operations
operations(body) ==
    CASE body = <<"+">> -> "ADD" [] body = <<"-">> -> "SUB"
      [] body = <<"*">> -> "MUL" [] body = <<"/">> -> "DIV"
      [] body = <<"=","=">> -> "EQ" [] body = <<"!","=">> -> "NEQ"
      [] body = <<"|","|">> -> "OR" [] body = <<"&","&">> -> "AND"

\* body.rstrip(chars)
RECURSIVE rstrip(_, _)
rstrip(body, chars) ==
    IF body # <<>> /\ body[Len(body)] \in chars
    THEN rstrip(SubSeq(body, 1, Len(body) - 1), chars)
    ELSE body

\* str(int(digits)): the decimal text without leading zeros
IntLiteral(digits) == StripZeros(digits)

RECURSIVE StripTrailingZeros(_)
StripTrailingZeros(ds) ==
    IF Len(ds) > 1 /\ ds[Len(ds)] = "0"
    THEN StripTrailingZeros(SubSeq(ds, 1, Len(ds) - 1))
    ELSE ds

\* str(float(body)) for a literal that needs no exponent: at least one digit
\* on each side of the point, no other leading or trailing zeros
FloatLiteral(body) ==
    StripZeros(IntegerPart(body)) \o <<".">>
        \o (IF FractionPart(body) = <<>> THEN <<"0">>
            ELSE StripTrailingZeros(FractionPart(body)))

\* a decoding that copies the characters between the delimiters as they are
Unescape_raw(body, offset) == SubSeq(body, offset + 1, Len(body) - 1)

\* the unescaping loop of compile_primary and of the mcfunction location
RECURSIVE Unescape(_, _)
Unescape(body, offset) ==
    IF ~(offset < Len(body) - 1) THEN <<>>
    ELSE IF body[offset + 1] = "\\"
         THEN <<body[offset + 2]>> \o Unescape(body, offset + 2)
         ELSE <<body[offset + 1]>> \o Unescape(body, offset + 1)

-----------------------------------------------------------------------------
(* Parser: expressions and statements.  imports is the file's import map   *)
(* (alias -> path), parameters the function's parameters (a dict: names in *)
(* insertion order with their types), fp the function path of the context. *)

\* next(index for index, (name, _) in enumerate(parameters) if name == body):
\* enumerate() of a dict yields the keys, and "(name, _)" unpacks each key
\* into two characters.  The result is the index, or the exception's name.
RECURSIVE ParameterIndex(_, _, _)
ParameterIndex(parameters, body, index) ==
    IF index >= Len(parameters) THEN [exc |-> "StopIteration", index |-> -1]
    ELSE LET key == parameters[index + 1].name
         IN  IF Len(key) # 2 THEN [exc |-> "ValueError", index |-> -1]
             ELSE IF <<key[1]>> = body THEN [exc |-> "", index |-> index]
             ELSE ParameterIndex(parameters, body, index + 1)

IsParameter(parameters, body) ==
    \E i \in 1..Len(parameters) : parameters[i].name = body


\* A method called on self.  The calls of the parsing methods to one another
\* go through the one operator Compiler, which is defined after them.
RECURSIVE Compiler(_, _)

self_compile_expression(t, L, fp, imports, parameters, commands) ==
    Compiler("compile_expression", <<t, L, fp, imports, parameters, commands>>)

self_compile_operation(t, L, fp, imports, parameters, commands, precedence) ==
    Compiler("compile_operation", <<t, L, fp, imports, parameters, commands, precedence>>)

self_compile_primary(t, L, fp, imports, parameters, commands) ==
    Compiler("compile_primary", <<t, L, fp, imports, parameters, commands>>)

self_CallArguments(t, L, fp, imports, parameters, commands, argc) ==
    Compiler("CallArguments", <<t, L, fp, imports, parameters, commands, argc>>)

self_compile_function_call(t, L, fp, imports, parameters, commands) ==
    Compiler("compile_function_call", <<t, L, fp, imports, parameters, commands>>)

self_AssignmentPath(t, L, fp, path, commands) ==
    Compiler("AssignmentPath", <<t, L, fp, path, commands>>)

self_BlockStatements(t, L, fp, imports, parameters, commands) ==
    Compiler("BlockStatements", <<t, L, fp, imports, parameters, commands>>)

self_Expect(t, L, fp, commands, body, message) ==
    Compiler("Expect", <<t, L, fp, commands, body, message>>)

self_CallStatement(t, L, fp, imports, parameters, commands) ==
    Compiler("CallStatement", <<t, L, fp, imports, parameters, commands>>)

self_AssignmentStatement(t, L, fp, imports, parameters, commands) ==
    Compiler("AssignmentStatement", <<t, L, fp, imports, parameters, commands>>)

self_VarStatement(t, L, fp, imports, parameters, commands) ==
    Compiler("VarStatement", <<t, L, fp, imports, parameters, commands>>)

self_IfStatement(t, L, fp, imports, parameters, commands) ==
    Compiler("IfStatement", <<t, L, fp, imports, parameters, commands>>)

self_compile_statement(t, L, fp, imports, parameters, commands) ==
    Compiler("compile_statement", <<t, L, fp, imports, parameters, commands>>)

self_ImportPath(t, L, path) ==
    Compiler("ImportPath", <<t, L, path>>)

self_parse_imports(t, L, imports) ==
    Compiler("parse_imports", <<t, L, imports>>)

self_ParameterList(t, L, parameters) ==
    Compiler("ParameterList", <<t, L, parameters>>)

self_ReturnType(t, L) ==
    Compiler("ReturnType", <<t, L>>)

self_FunctionDeclaration(t, L, namespace, imports, functions) ==
    Compiler("FunctionDeclaration", <<t, L, namespace, imports, functions>>)

self_McFunctionDeclaration(t, L, namespace, functions) ==
    Compiler("McFunctionDeclaration", <<t, L, namespace, functions>>)

self_compile_structure(t, L, namespace, imports, functions) ==
    Compiler("compile_structure", <<t, L, namespace, imports, functions>>)

self_NamespaceStructures(t, L, namespace, imports, functions) ==
    Compiler("NamespaceStructures", <<t, L, namespace, imports, functions>>)

self_NamespaceDots(t, L, lexeme, namespace) ==
    Compiler("NamespaceDots", <<t, L, lexeme, namespace>>)

self_compile_block(t, L, imports, functions) ==
    Compiler("compile_block", <<t, L, imports, functions>>)

self_FileBlocks(t, L, imports, functions) ==
    Compiler("FileBlocks", <<t, L, imports, functions>>)

compile_expression(t, L, fp, imports, parameters, commands) ==
    LET p == self_compile_primary(t, L, fp, imports, parameters, commands)
    IN  IF p.st # "ok" THEN p
        ELSE self_compile_operation(t, p.lx, fp, imports, parameters, p.commands, 0)

\* compile_operation with the operation appended as soon as the operator is
\* read, before its right-hand primary is parsed
compile_operation_early(t, L, fp, imports, parameters, commands, precedence) ==
    LET la == lexer_lookahead(t, L)
        operator == lexer_next(t, L)
        appended ==
            Append(commands,
                   Command(operator.lexeme.position,
                           operations(operator.lexeme.body)))
        p == self_compile_primary(t, operator.lx, fp, imports, parameters, appended)
        deeper ==
            precedence + (IF OperatorsFrom(precedence + 1) # {} THEN 1 ELSE 0)
        q == self_compile_operation(t, p.lx, fp, imports, parameters, p.commands, deeper)
    IN  IF NotLexeme(la) THEN Raise(LexException(la), la.lx, commands)
        ELSE IF la.lexeme.body \notin OperatorsFrom(precedence)
        THEN Ok(L, commands)
        ELSE IF p.st # "ok" THEN p
        ELSE IF q.st # "ok" THEN q
        ELSE self_compile_operation(t, q.lx, fp, imports, parameters, q.commands,
                               precedence)

compile_operation(t, L, fp, imports, parameters, commands, precedence) ==
    LET la == lexer_lookahead(t, L)
        operator == lexer_next(t, L)
        p == self_compile_primary(t, operator.lx, fp, imports, parameters, commands)
        appended ==
            Append(p.commands,
                   Command(operator.lexeme.position,
                           operations(operator.lexeme.body)))
        deeper ==
            precedence + (IF OperatorsFrom(precedence + 1) # {} THEN 1 ELSE 0)
        q == self_compile_operation(t, p.lx, fp, imports, parameters, appended, deeper)
    IN  IF NotLexeme(la) THEN Raise(LexException(la), la.lx, commands)
        ELSE IF la.lexeme.body \notin OperatorsFrom(precedence)
        THEN Ok(L, commands)
        ELSE IF p.st # "ok" THEN p
        ELSE IF q.st # "ok" THEN q
        ELSE self_compile_operation(t, q.lx, fp, imports, parameters, q.commands,
                               precedence)

compile_primary(t, L, fp, imports, parameters, commands) ==
    LET la == lexer_lookahead(t, L)
        lexeme == la.lexeme
        position == lexeme.position
        body == lexeme.body
        consumed == lexer_next(t, L).lx            \* the trailing lexer.next()
        push(command) == Ok(consumed, Append(commands, command))
        ix == ParameterIndex(parameters, body, 0)
    IN  IF NotLexeme(la) THEN Raise(LexException(la), la.lx, commands)
        ELSE CASE lexeme.type = "IDENTIFIER" ->
                    IF body \in DOMAIN imports
                    THEN self_compile_function_call(t, L, fp, imports, parameters,
                                               commands)
                    ELSE IF IsParameter(parameters, body)
                    THEN IF ix.exc # "" THEN Raise(ix.exc, L, commands)
                         ELSE push(GetArg(position, ix.index))
                    ELSE push(Named(position, "GET_VAR", body))
               [] lexeme.type = "BOOLEAN" ->
                    push(Load(position, "Boolean",
                              IF body = kw_true THEN <<"t","r","u","e">>
                              ELSE <<"f","a","l","s","e">>))
               [] lexeme.type = "BYTE" ->
                    push(Load(position, "Byte",
                              IntLiteral(rstrip(body, {"B", "b"}))))
               [] lexeme.type = "SHORT" ->
                    push(Load(position, "Short",
                              IntLiteral(rstrip(body, {"S", "s"}))))
               [] lexeme.type = "INT" ->
                    push(Load(position, "Int", IntLiteral(body)))
               [] lexeme.type = "LONG" ->
                    push(Load(position, "Long",
                              IntLiteral(rstrip(body, {"L", "l"}))))
               [] lexeme.type = "FLOAT" ->
                    push(Load(position, "Float",
                              FloatLiteral(rstrip(body, {"F", "f"}))))
               [] lexeme.type = "DOUBLE" ->
                    IF FloatRaises(rstrip(body, {"D", "d"}))
                    THEN Raise("ValueError", L, commands)
                    ELSE push(Load(position, "Double",
                                   FloatLiteral(rstrip(body, {"D", "d"}))))
               [] lexeme.type = "STRING" ->
                    push(Load(position, "String", Unescape(body, 1)))
               [] OTHER ->
                    Fail(t, fp, position, "Unexpected", <<body>>, L, commands)

\* the argument loop of compile_function_call: [res, argc]
CallArguments(t, L, fp, imports, parameters, commands, argc) ==
    LET la == lexer_lookahead(t, L)
        e == self_compile_expression(t, L, fp, imports, parameters, commands)
        la2 == lexer_lookahead(t, e.lx)
    IN  IF NotLexeme(la)
        THEN [res |-> Raise(LexException(la), la.lx, commands), argc |-> argc]
        ELSE IF la.lexeme.body = <<")">>
        THEN [res |-> Ok(L, commands), argc |-> argc]
        ELSE IF e.st # "ok" THEN [res |-> e, argc |-> argc]
        ELSE IF NotLexeme(la2)
        THEN [res |-> Raise(LexException(la2), la2.lx, e.commands),
              argc |-> argc + 1]
        ELSE IF la2.lexeme.body = <<",">>
        THEN self_CallArguments(t, lexer_next(t, e.lx).lx, fp, imports, parameters,
                           e.commands, argc + 1)
        ELSE [res |-> Ok(e.lx, e.commands), argc |-> argc + 1]

compile_function_call(t, L, fp, imports, parameters, commands) ==
    LET r == lexer_next(t, L)
        name == r.lexeme.body
        position == r.lexeme.position
        open == lexer_next(t, r.lx)
        a == self_CallArguments(t, open.lx, fp, imports, parameters, commands, 0)
        close == lexer_next(t, a.res.lx)
    IN  IF NotLexeme(r) THEN Raise(LexException(r), r.lx, commands)
        ELSE IF name \notin DOMAIN imports
        THEN Fail(t, fp, position, "Expected function name, got", <<name>>,
                  r.lx, commands)
        ELSE IF NotLexeme(open) THEN Raise(LexException(open), open.lx, commands)
        ELSE IF open.lexeme.body # <<"(">>
        THEN Fail(t, fp, open.lexeme.position,
                  "Expected '(' when calling function, got",
                  <<open.lexeme.body>>, open.lx, commands)
        ELSE IF a.res.st # "ok" THEN a.res
        ELSE IF NotLexeme(close)
        THEN Raise(LexException(close), close.lx, a.res.commands)
        ELSE IF close.lexeme.body # <<")">>
        THEN Fail(t, fp, close.lexeme.position, "Expected ')', got",
                  <<close.lexeme.body>>, close.lx, a.res.commands)
        ELSE Ok(close.lx,
                Append(a.res.commands, Call(position, imports[name], a.argc)))

\* the "." loop of an assignment: [res, path]; path holds the lexemes
AssignmentPath(t, L, fp, path, commands) ==
    LET la == lexer_lookahead(t, L)
        r == lexer_next(t, lexer_next(t, L).lx)
    IN  IF NotLexeme(la)
        THEN [res |-> Raise(LexException(la), la.lx, commands), path |-> path]
        ELSE IF la.lexeme.body # <<".">>
        THEN [res |-> Ok(L, commands), path |-> path]
        ELSE IF NotLexeme(r)
        THEN [res |-> Raise(LexException(r), r.lx, commands), path |-> path]
        ELSE IF r.lexeme.type # "IDENTIFIER"
        THEN [res |-> Fail(t, fp, r.lexeme.position, "Expected identifier, got",
                           <<r.lexeme.body>>, r.lx, commands),
              path |-> path]
        ELSE self_AssignmentPath(t, r.lx, fp, Append(path, r.lexeme), commands)

\* the commands an assignment appends after its expression
AssignmentCommands(path) ==
    IF Len(path) > 1
    THEN <<Named(path[1].position, "GET_VAR", path[1].body)>>
         \o [i \in 1..(Len(path) - 2) |->
                Named(path[i + 1].position, "GET_PROP", path[i + 1].body)]
         \o <<Named(path[Len(path)].position, "SET_PROP", path[Len(path)].body)>>
    ELSE <<Named(path[1].position, "SET_VAR", path[1].body)>>

\* while lexer.lookahead().body != "}": self_compile_statement(...)
BlockStatements(t, L, fp, imports, parameters, commands) ==
    LET la == lexer_lookahead(t, L)
        s == self_compile_statement(t, L, fp, imports, parameters, commands)
    IN  IF NotLexeme(la) THEN Raise(LexException(la), la.lx, commands)
        ELSE IF la.lexeme.body = <<"}">> THEN Ok(L, commands)
        ELSE IF s.st # "ok" THEN s
        ELSE self_BlockStatements(t, s.lx, fp, imports, parameters, s.commands)

\* expects the lexeme `body` next: Ok after it, or the failure
Expect(t, L, fp, commands, body, message) ==
    LET r == lexer_next(t, L)
    IN  IF NotLexeme(r) THEN Raise(LexException(r), r.lx, commands)
        ELSE IF r.lexeme.body # body
        THEN Fail(t, fp, r.lexeme.position, message, <<r.lexeme.body>>, r.lx,
                  commands)
        ELSE Ok(r.lx, commands)

CallStatement(t, L, fp, imports, parameters, commands) ==
    LET c == self_compile_function_call(t, L, fp, imports, parameters, commands)
    IN  IF c.st # "ok" THEN c
        ELSE self_Expect(t, c.lx, fp, c.commands, <<";">>,
                    "Expected end of statement, got")

AssignmentStatement(t, L, fp, imports, parameters, commands) ==
    LET first == lexer_next(t, L)
        ap == self_AssignmentPath(t, first.lx, fp, <<first.lexeme>>, commands)
        eq == self_Expect(t, ap.res.lx, fp, commands, <<"=">>, "Expected '=', got")
        e == self_compile_expression(t, eq.lx, fp, imports, parameters, commands)
        semi == self_Expect(t, e.lx, fp, e.commands, <<";">>,
                       "Expected end of statement, got")
    IN  IF ap.res.st # "ok" THEN ap.res
        ELSE IF eq.st # "ok" THEN eq
        ELSE IF e.st # "ok" THEN e
        ELSE IF semi.st # "ok" THEN semi
        ELSE Ok(semi.lx, e.commands \o AssignmentCommands(ap.path))

VarStatement(t, L, fp, imports, parameters, commands) ==
    LET kw == lexer_next(t, L)
        name == lexer_next(t, kw.lx)
        eq == self_Expect(t, name.lx, fp, commands, <<"=">>, "Expected '=', got")
        e == self_compile_expression(t, eq.lx, fp, imports, parameters, commands)
        semi == self_Expect(t, e.lx, fp, e.commands, <<";">>,
                       "Expected end of statement, got")
    IN  IF NotLexeme(name) THEN Raise(LexException(name), name.lx, commands)
        ELSE IF name.lexeme.type # "IDENTIFIER"
        THEN Fail(t, fp, kw.lexeme.position, "Expected identifier, got",
                  <<kw.lexeme.body>>, name.lx, commands)
        ELSE IF eq.st # "ok" THEN eq
        ELSE IF e.st # "ok" THEN e
        ELSE IF semi.st # "ok" THEN semi
        ELSE Ok(semi.lx,
                Append(e.commands,
                       Named(name.lexeme.position, "DECLARE_VAR",
                             name.lexeme.body)))

IfStatement(t, L, fp, imports, parameters, commands) ==
    LET keyword == lexer_next(t, L)
        open == self_Expect(t, keyword.lx, fp, commands, <<"(">>, "Expected '(', got")
        e == self_compile_expression(t, open.lx, fp, imports, parameters, commands)
        close == self_Expect(t, e.lx, fp, e.commands, <<")">>, "Expected ')', got")
        brace == self_Expect(t, close.lx, fp, e.commands, <<"{">>, "Expected '{', got")
        b == self_BlockStatements(t, brace.lx, fp, imports, parameters, <<>>)
        end == self_Expect(t, b.lx, fp, e.commands, <<"}">>, "Expected '}', got")
    IN  IF open.st # "ok" THEN open
        ELSE IF e.st # "ok" THEN e
        ELSE IF close.st # "ok" THEN close
        ELSE IF brace.st # "ok" THEN brace
        ELSE IF b.st # "ok" THEN [b EXCEPT !.commands = e.commands]
        ELSE IF end.st # "ok" THEN end
        ELSE Ok(end.lx,
                Append(e.commands, DoIf(keyword.lexeme.position, b.commands)))

compile_statement(t, L, fp, imports, parameters, commands) ==
    LET la == lexer_lookahead(t, L)
        lexeme == la.lexeme
    IN  IF NotLexeme(la) THEN Raise(LexException(la), la.lx, commands)
        ELSE IF lexeme.type = "IDENTIFIER" /\ lexeme.body \in DOMAIN imports
        THEN self_CallStatement(t, L, fp, imports, parameters, commands)
        ELSE IF lexeme.type = "IDENTIFIER"
        THEN self_AssignmentStatement(t, L, fp, imports, parameters, commands)
        ELSE IF lexeme.body = kw_var
        THEN self_VarStatement(t, L, fp, imports, parameters, commands)
        ELSE IF lexeme.body = kw_if
        THEN self_IfStatement(t, L, fp, imports, parameters, commands)
        ELSE Fail(t, fp, lexeme.position, "Unexpected", <<lexeme.body>>, L,
                  commands)

-----------------------------------------------------------------------------
(* Parser: imports, blocks, function declarations.  Their outcome carries  *)
(* the function table (Compiler.functions) in place of a command list.     *)

FOk(L, functions) ==
    [st |-> "ok", lx |-> L, functions |-> functions, error |-> NoError]

FRaise(exc, L, functions) ==
    [st |-> "raise", lx |-> L, functions |-> functions, error |-> Exception(exc)]

FFail(t, position, message, args, L, functions) ==
    LET e == CompilationError(t.text, NoBody, position, message, args)
    IN  [st |-> IF e.kind = "CompilationError" THEN "fail" ELSE "raise",
         lx |-> L, functions |-> functions, error |-> e]

\* the outcome of the statements of a body, with the function table
WithFunctions(r, functions) ==
    [st |-> r.st, lx |-> r.lx, functions |-> functions, error |-> r.error]

\* getattr(CubentType, name): the reserved type names were never assigned
HasTypeAttribute(name) ==
    name \in { <<"V","o","i","d">>, <<"A","n","y">>, <<"B","y","t","e">>,
               <<"B","o","o","l","e","a","n">>, <<"S","h","o","r","t">>,
               <<"I","n","t">>, <<"L","o","n","g">>, <<"F","l","o","a","t">>,
               <<"D","o","u","b","l","e">>, <<"S","t","r","i","n","g">> }

\* parameters[name] = type on a dict: a known key keeps its place
DictSet(parameters, name, type) ==
    IF \E i \in 1..Len(parameters) : parameters[i].name = name
    THEN [i \in 1..Len(parameters) |->
             IF parameters[i].name = name
             THEN [name |-> name, type |-> type] ELSE parameters[i]]
    ELSE Append(parameters, [name |-> name, type |-> type])

CubentFunction(path, parameters, return_type, commands) ==
    [class |-> "CubentFunction", path |-> path, parameters |-> parameters,
     return_type |-> return_type, commands |-> commands, location |-> <<>>]

MCFunction(path, parameters, return_type, location) ==
    [class |-> "MCFunction", path |-> path, parameters |-> parameters,
     return_type |-> return_type, commands |-> <<>>, location |-> location]

\* the "." loop of an import: [st, lx, path, lexeme, error]; lexeme is the
\* one read after the last identifier
ImportPath(t, L, path) ==
    LET r == lexer_next(t, L)
        after == lexer_next(t, r.lx)
        stop(st, at, error) ==
            [st |-> st, lx |-> at, path |-> path, lexeme |-> r.lexeme,
             error |-> error]
        e == CompilationError(t.text, NoBody, r.lexeme.position,
                              "Expected identifier, got", <<r.lexeme.body>>)
    IN  IF NotLexeme(r) THEN stop("raise", r.lx, Exception(LexException(r)))
        ELSE IF r.lexeme.type # "IDENTIFIER"
        THEN stop(IF e.kind = "CompilationError" THEN "fail" ELSE "raise",
                  r.lx, e)
        ELSE IF NotLexeme(after)
        THEN stop("raise", after.lx, Exception(LexException(after)))
        ELSE IF after.lexeme.body = <<".">>
        THEN self_ImportPath(t, after.lx, Append(path, r.lexeme.body))
        ELSE [st |-> "ok", lx |-> after.lx,
              path |-> Append(path, r.lexeme.body), lexeme |-> after.lexeme,
              error |-> NoError]

\* parse_imports: [st, lx, imports, error]
parse_imports(t, L, imports) ==
    LET la == lexer_lookahead(t, L)
        first == lexer_next(t, lexer_next(t, L).lx)
        dot == lexer_next(t, first.lx)
        ip == self_ImportPath(t, dot.lx, <<first.lexeme.body>>)
        alias == lexer_next(t, ip.lx)
        afterAlias == lexer_next(t, alias.lx)
        hasAs == ip.lexeme.body = kw_as
        last == IF hasAs THEN afterAlias.lexeme ELSE ip.lexeme
        lastLx == IF hasAs THEN afterAlias.lx ELSE ip.lx
        name == IF hasAs THEN alias.lexeme.body ELSE ip.path[Len(ip.path)]
        out(st, at, error) ==
            [st |-> st, lx |-> at, imports |-> imports, error |-> error]
        raise(r) == out("raise", r.lx, Exception(LexException(r)))
        fail(lexeme, at, message) ==
            LET e == CompilationError(t.text, NoBody, lexeme.position, message,
                                      <<lexeme.body>>)
            IN  out(IF e.kind = "CompilationError" THEN "fail" ELSE "raise",
                    at, e)
    IN  IF NotLexeme(la) THEN raise(la)
        ELSE IF la.lexeme.body # kw_import THEN out("ok", L, NoError)
        ELSE IF NotLexeme(first) THEN raise(first)
        ELSE IF first.lexeme.type # "IDENTIFIER"
        THEN fail(first.lexeme, first.lx, "Expected identifier, got")
        ELSE IF NotLexeme(dot) THEN raise(dot)
        ELSE IF dot.lexeme.body # <<".">>
        THEN fail(dot.lexeme, dot.lx, "Expected '.', got")
        ELSE IF ip.st # "ok" THEN out(ip.st, ip.lx, ip.error)
        ELSE IF hasAs /\ NotLexeme(alias) THEN raise(alias)
        ELSE IF hasAs /\ alias.lexeme.type # "IDENTIFIER"
        THEN fail(alias.lexeme, alias.lx, "Expected identifier, got")
        ELSE IF hasAs /\ NotLexeme(afterAlias) THEN raise(afterAlias)
        ELSE IF last.body # <<";">>
        THEN fail(last, lastLx, "Expected end of statement, got")
        ELSE self_parse_imports(t, lastLx, (name :> ip.path) @@ imports)

\* the parameter loop of a function or mcfunction header, up to the ")":
\* [st, lx, parameters, error].  Its errors are built with three arguments,
\* which CompilationError.__init__ does not take: TypeError.
ParameterList(t, L, parameters) ==
    LET la == lexer_lookahead(t, L)
        pname == lexer_next(t, L)
        colon == lexer_next(t, pname.lx)
        ptype == lexer_next(t, colon.lx)
        la2 == lexer_lookahead(t, ptype.lx)
        added == DictSet(parameters, pname.lexeme.body, Str(ptype.lexeme.body))
        out(st, at, ps, error) ==
            [st |-> st, lx |-> at, parameters |-> ps, error |-> error]
        raise(r) == out("raise", r.lx, parameters, Exception(LexException(r)))
    IN  IF NotLexeme(la) THEN raise(la)
        ELSE IF la.lexeme.body = <<")">> THEN out("ok", L, parameters, NoError)
        ELSE IF NotLexeme(pname) THEN raise(pname)
        ELSE IF pname.lexeme.type # "IDENTIFIER"
        THEN out("raise", pname.lx, parameters, Exception("TypeError"))
        ELSE IF NotLexeme(colon) THEN raise(colon)
        ELSE IF colon.lexeme.body # <<":">>
        THEN out("raise", colon.lx, parameters, Exception("TypeError"))
        ELSE IF NotLexeme(ptype) THEN raise(ptype)
        ELSE IF ptype.lexeme.type # "TYPE"
        THEN out("raise", ptype.lx, parameters, Exception("TypeError"))
        ELSE IF ~HasTypeAttribute(ptype.lexeme.body)
        THEN out("raise", ptype.lx, parameters, Exception("AttributeError"))
        ELSE IF NotLexeme(la2) THEN raise(la2)
        ELSE IF la2.lexeme.body = <<",">>
        THEN self_ParameterList(t, lexer_next(t, ptype.lx).lx, added)
        ELSE out("ok", ptype.lx, added, NoError)

\* from the ")" of a header to its return type: [st, lx, return_type, error]
ReturnType(t, L) ==
    LET close == lexer_next(t, L)
        colon == lexer_next(t, close.lx)
        rtype == lexer_next(t, colon.lx)
        out(st, at, error) ==
            [st |-> st, lx |-> at, return_type |-> rtype.lexeme.body,
             error |-> error]
        raise(r) ==
            [st |-> "raise", lx |-> r.lx, return_type |-> <<>>,
             error |-> Exception(LexException(r))]
        fail(lexeme, at, message) ==
            LET e == CompilationError(t.text, NoBody, lexeme.position, message,
                                      <<lexeme.body>>)
            IN  [st |-> IF e.kind = "CompilationError" THEN "fail" ELSE "raise",
                 lx |-> at, return_type |-> <<>>, error |-> e]
    IN  IF NotLexeme(close) THEN raise(close)
        ELSE IF close.lexeme.body # <<")">>
        THEN fail(close.lexeme, close.lx, "Expected ')', got")
        ELSE IF NotLexeme(colon) THEN raise(colon)
        ELSE IF colon.lexeme.body # <<":">>
        THEN fail(colon.lexeme, colon.lx, "Expected ':', got")
        ELSE IF NotLexeme(rtype) THEN raise(rtype)
        ELSE IF rtype.lexeme.type # "TYPE"
        THEN fail(rtype.lexeme, rtype.lx, "Expected return type, got")
        ELSE out("ok", rtype.lx, NoError)

\* the "function" branch of compile_structure, after the keyword
FunctionDeclaration(t, L, namespace, imports, functions) ==
    LET fname == lexer_next(t, L)
        name == fname.lexeme.body
        open == lexer_next(t, fname.lx)
        ps == self_ParameterList(t, open.lx, <<>>)
        rt == self_ReturnType(t, ps.lx)
        brace == lexer_next(t, rt.lx)
        fp == JoinDots(namespace) \o <<".">> \o name
        body == self_BlockStatements(t, brace.lx, fp, imports, ps.parameters, <<>>)
        end == lexer_next(t, body.lx)
    IN  IF NotLexeme(fname) THEN FRaise(LexException(fname), fname.lx, functions)
        ELSE IF fname.lexeme.type # "IDENTIFIER"
        THEN FRaise("TypeError", fname.lx, functions)
        ELSE IF NotLexeme(open) THEN FRaise(LexException(open), open.lx, functions)
        ELSE IF open.lexeme.body # <<"(">>
        THEN FRaise("TypeError", open.lx, functions)
        ELSE IF ps.st # "ok" THEN WithFunctions(ps, functions)
        ELSE IF rt.st # "ok" THEN WithFunctions(rt, functions)
        ELSE IF NotLexeme(brace)
        THEN FRaise(LexException(brace), brace.lx, functions)
        ELSE IF brace.lexeme.body # <<"{">>
        THEN FFail(t, brace.lexeme.position, "Expected '{', got",
                   <<brace.lexeme.body>>, brace.lx, functions)
        ELSE IF body.st # "ok" THEN WithFunctions(body, functions)
        ELSE IF ~HasTypeAttribute(rt.return_type)
        THEN FRaise("AttributeError", end.lx, functions)
        ELSE FOk(end.lx,
                 Append(functions,
                        CubentFunction(Append(namespace, name), ps.parameters,
                                       Str(rt.return_type), body.commands)))

\* location.split(":", 2) unpacked into two names
ColonCount(location) == Cardinality({ i \in 1..Len(location) : location[i] = ":" })

McLocation(location) ==
    IF Contains(location, ":") THEN location
    ELSE <<"m","i","n","e","c","r","a","f","t",":">> \o location

\* the "mcfunction" branch of compile_structure, after the keyword
McFunctionDeclaration(t, L, namespace, functions) ==
    LET loc == lexer_next(t, L)
        location == Unescape(loc.lexeme.body, 1)
        fname == lexer_next(t, loc.lx)
        name == fname.lexeme.body
        open == lexer_next(t, fname.lx)
        ps == self_ParameterList(t, open.lx, <<>>)
        rt == self_ReturnType(t, ps.lx)
        semi == lexer_next(t, rt.lx)
    IN  IF NotLexeme(loc) THEN FRaise(LexException(loc), loc.lx, functions)
        ELSE IF loc.lexeme.type # "STRING"
        THEN FFail(t, loc.lexeme.position, "Expected function location, got",
                   <<loc.lexeme.body>>, loc.lx, functions)
        ELSE IF ColonCount(location) > 1
        THEN FRaise("ValueError", loc.lx, functions)
        ELSE IF NotLexeme(fname)
        THEN FRaise(LexException(fname), fname.lx, functions)
        ELSE IF fname.lexeme.type # "IDENTIFIER"
        THEN FFail(t, fname.lexeme.position, "Expected function name, got",
                   <<name>>, fname.lx, functions)
        ELSE IF NotLexeme(open) THEN FRaise(LexException(open), open.lx, functions)
        ELSE IF open.lexeme.body # <<"(">>
        THEN FFail(t, fname.lexeme.position, "Expected '(', got", <<name>>,
                   open.lx, functions)
        ELSE IF ps.st # "ok" THEN WithFunctions(ps, functions)
        ELSE IF rt.st # "ok" THEN WithFunctions(rt, functions)
        ELSE IF NotLexeme(semi) THEN FRaise(LexException(semi), semi.lx, functions)
        ELSE IF semi.lexeme.body # <<";">>
        THEN FFail(t, semi.lexeme.position, "Expected ';', got",
                   <<semi.lexeme.body>>, semi.lx, functions)
        ELSE IF ~HasTypeAttribute(rt.return_type)
        THEN FRaise("AttributeError", semi.lx, functions)
        ELSE FOk(semi.lx,
                 Append(functions,
                        MCFunction(Append(namespace, name), ps.parameters,
                                   Str(rt.return_type), McLocation(location))))

compile_structure(t, L, namespace, imports, functions) ==
    LET r == lexer_next(t, L)
    IN  IF NotLexeme(r) THEN FRaise(LexException(r), r.lx, functions)
        ELSE IF r.lexeme.body = kw_function
        THEN self_FunctionDeclaration(t, r.lx, namespace, imports, functions)
        ELSE IF r.lexeme.body = kw_mcfunction
        THEN self_McFunctionDeclaration(t, r.lx, namespace, functions)
        ELSE FFail(t, r.lexeme.position, "Unexpected", <<r.lexeme.body>>, r.lx,
                   functions)

\* while lexer.lookahead().body != "}": self_compile_structure(...)
NamespaceStructures(t, L, namespace, imports, functions) ==
    LET la == lexer_lookahead(t, L)
        c == self_compile_structure(t, L, namespace, imports, functions)
    IN  IF NotLexeme(la) THEN FRaise(LexException(la), la.lx, functions)
        ELSE IF la.lexeme.body = <<"}">> THEN FOk(L, functions)
        ELSE IF c.st # "ok" THEN c
        ELSE self_NamespaceStructures(t, c.lx, namespace, imports, c.functions)

\* the "." loop of a namespace header: every "." appends the body of the
\* first identifier again (lexeme is not read anew): [st, lx, namespace, error]
NamespaceDots(t, L, lexeme, namespace) ==
    LET la == lexer_lookahead(t, L)
    IN  IF NotLexeme(la)
        THEN [st |-> "raise", lx |-> la.lx, namespace |-> namespace,
              error |-> Exception(LexException(la))]
        ELSE IF la.lexeme.body # <<".">>
        THEN [st |-> "ok", lx |-> L, namespace |-> namespace, error |-> NoError]
        ELSE self_NamespaceDots(t, lexer_next(t, L).lx, lexeme,
                           Append(namespace, lexeme.body))

compile_block(t, L, imports, functions) ==
    LET r == lexer_next(t, L)
        ident == lexer_next(t, r.lx)
        nd == self_NamespaceDots(t, ident.lx, ident.lexeme, <<ident.lexeme.body>>)
        brace == lexer_next(t, nd.lx)
        ns == self_NamespaceStructures(t, brace.lx, nd.namespace, imports, functions)
        loadOpen == lexer_next(t, r.lx)
        loadClose == lexer_next(t, loadOpen.lx)
    IN  IF NotLexeme(r) THEN FRaise(LexException(r), r.lx, functions)
        ELSE IF r.lexeme.body = kw_namespace
        THEN IF NotLexeme(ident)
             THEN FRaise(LexException(ident), ident.lx, functions)
             ELSE IF ident.lexeme.type # "IDENTIFIER"
             THEN FFail(t, ident.lexeme.position, "Expected identifier, got",
                        <<ident.lexeme.body>>, ident.lx, functions)
             ELSE IF nd.st # "ok" THEN WithFunctions(nd, functions)
             ELSE IF NotLexeme(brace)
             THEN FRaise(LexException(brace), brace.lx, functions)
             ELSE IF brace.lexeme.body # <<"{">>
             THEN FFail(t, ident.lexeme.position, "Expected '{', got",
                        <<ident.lexeme.body>>, brace.lx, functions)
             ELSE IF ns.st # "ok" THEN ns
             ELSE FOk(lexer_next(t, ns.lx).lx, ns.functions)
        ELSE IF r.lexeme.body = kw_load
        THEN IF NotLexeme(loadOpen)
             THEN FRaise(LexException(loadOpen), loadOpen.lx, functions)
             ELSE IF loadOpen.lexeme.body # <<"{">>
             THEN FFail(t, r.lexeme.position, "Expected '{', got",
                        <<r.lexeme.body>>, loadOpen.lx, functions)
             ELSE IF NotLexeme(loadClose)
             THEN FRaise(LexException(loadClose), loadClose.lx, functions)
             ELSE IF loadClose.lexeme.body # <<"}">>
             THEN FFail(t, r.lexeme.position, "Expected '}', got",
                        <<r.lexeme.body>>, loadClose.lx, functions)
             ELSE FOk(loadClose.lx, functions)
        ELSE IF r.lexeme.body = kw_tick THEN FOk(r.lx, functions)
        ELSE FFail(t, r.lexeme.position, "Unexpected", <<r.lexeme.body>>, r.lx,
                   functions)

\* while lexer.lookahead().type != LexemeType.EOF: self_compile_block(...)
FileBlocks(t, L, imports, functions) ==
    LET la == lexer_lookahead(t, L)
        b == self_compile_block(t, L, imports, functions)
    IN  IF NotLexeme(la) THEN FRaise(LexException(la), la.lx, functions)
        ELSE IF la.lexeme.type = "EOF" THEN FOk(L, functions)
        ELSE IF b.st # "ok" THEN b
        ELSE self_FileBlocks(t, b.lx, imports, b.functions)

\* compile_file once its Lexer is made: [st, lx, functions, error]
ParseFile(t, functions) ==
    LET i == self_parse_imports(t, 1, <<>>)
    IN  IF i.st # "ok" THEN WithFunctions(i, functions)
        ELSE self_FileBlocks(t, i.lx, i.imports, functions)

\* self.method(a[1], ..., a[n])
Compiler(method, a) ==
    CASE method = "compile_file" ->
            ParseFile(a[1], a[2])
      [] method = "compile_expression" ->
            compile_expression(a[1], a[2], a[3], a[4], a[5], a[6])
      [] method = "compile_operation" ->
            compile_operation(a[1], a[2], a[3], a[4], a[5], a[6], a[7])
      [] method = "compile_primary" ->
            compile_primary(a[1], a[2], a[3], a[4], a[5], a[6])
      [] method = "CallArguments" ->
            CallArguments(a[1], a[2], a[3], a[4], a[5], a[6], a[7])
      [] method = "compile_function_call" ->
            compile_function_call(a[1], a[2], a[3], a[4], a[5], a[6])
      [] method = "AssignmentPath" ->
            AssignmentPath(a[1], a[2], a[3], a[4], a[5])
      [] method = "BlockStatements" ->
            BlockStatements(a[1], a[2], a[3], a[4], a[5], a[6])
      [] method = "Expect" ->
            Expect(a[1], a[2], a[3], a[4], a[5], a[6])
      [] method = "CallStatement" ->
            CallStatement(a[1], a[2], a[3], a[4], a[5], a[6])
      [] method = "AssignmentStatement" ->
            AssignmentStatement(a[1], a[2], a[3], a[4], a[5], a[6])
      [] method = "VarStatement" ->
            VarStatement(a[1], a[2], a[3], a[4], a[5], a[6])
      [] method = "IfStatement" ->
            IfStatement(a[1], a[2], a[3], a[4], a[5], a[6])
      [] method = "compile_statement" ->
            compile_statement(a[1], a[2], a[3], a[4], a[5], a[6])
      [] method = "ImportPath" ->
            ImportPath(a[1], a[2], a[3])
      [] method = "parse_imports" ->
            parse_imports(a[1], a[2], a[3])
      [] method = "ParameterList" ->
            ParameterList(a[1], a[2], a[3])
      [] method = "ReturnType" ->
            ReturnType(a[1], a[2])
      [] method = "FunctionDeclaration" ->
            FunctionDeclaration(a[1], a[2], a[3], a[4], a[5])
      [] method = "McFunctionDeclaration" ->
            McFunctionDeclaration(a[1], a[2], a[3], a[4])
      [] method = "compile_structure" ->
            compile_structure(a[1], a[2], a[3], a[4], a[5])
      [] method = "NamespaceStructures" ->
            NamespaceStructures(a[1], a[2], a[3], a[4], a[5])
      [] method = "NamespaceDots" ->
            NamespaceDots(a[1], a[2], a[3], a[4])
      [] method = "compile_block" ->
            compile_block(a[1], a[2], a[3], a[4])
      [] method = "FileBlocks" ->
            FileBlocks(a[1], a[2], a[3], a[4])

compile_file(source_code, functions) ==
    Compiler("compile_file", <<Lexer(source_code), functions>>)

(***************************************************************************)
(* The emitter (Compiler.write_commands and what it calls).  A CubentType  *)
(* is modelled by its path: one name, a string.  An emitted file is the    *)
(* sequence of its lines.                                                  *)
(***************************************************************************)
CUBENT_STORAGE == "cubent:storage"
CUBENT_SCOREBOARD == "cubent.scoreboard"

\* Scope(): a chain of variable dicts, the outermost first; a dict is a
\* sequence of [name, type]
NewScope == << <<>> >>

\* a helper that declares into the frame of the block it was called from
ChildScope_shared(scope) == scope

\* Scope(parent)
ChildScope(scope) == Append(scope, <<>>)

InFrame(frame, name) == \E i \in 1..Len(frame) : frame[i].name = name

\* Scope.declare_variable: [ok, scope]
declare_variable(scope, variable_name, variable_type) ==
    IF InFrame(scope[Len(scope)], variable_name)
    THEN [ok |-> FALSE, scope |-> scope]
    ELSE [ok |-> TRUE,
          scope |-> [scope EXCEPT ![Len(scope)] =
                        Append(@, [name |-> variable_name,
                                   type |-> variable_type])]]

\* Scope.get_variable: the type, or "None" when no scope of the chain has it
RECURSIVE get_variable(_, _)
get_variable(scope, variable_name) ==
    IF scope = <<>> THEN "None"
    ELSE LET frame == scope[Len(scope)]
         IN  IF InFrame(frame, variable_name)
             THEN frame[CHOOSE i \in 1..Len(frame) :
                            frame[i].name = variable_name].type
             ELSE get_variable(SubSeq(scope, 1, Len(scope) - 1),
                               variable_name)

\* build_uuid + "." + ".".join(path[:-1]) + ":" + path[-1]
function_storage(build_uuid, path) ==
    build_uuid \o "." \o Str(JoinDots(SubSeq(path, 1, Len(path) - 1)))
        \o ":" \o Str(path[Len(path)])

\* str.find: the index from 0 of the first ch, or -1
find(cs, ch) ==
    IF Contains(cs, ch)
    THEN (CHOOSE i \in 1..Len(cs) :
              cs[i] = ch /\ \A j \in 1..(i - 1) : cs[j] # ch) - 1
    ELSE -1

\* str.replace of one character, on sequences of characters
RECURSIVE replace(_, _, _)
replace(cs, ch, new) ==
    IF cs = <<>> THEN <<>>
    ELSE (IF cs[1] = ch THEN new ELSE <<cs[1]>>) \o replace(Tail(cs), ch, new)

\* the raw value of a LOAD, lines 802-819: str() of the value but for
\* strings, which are quoted, and the types with a suffix
Raw(cubent_type, value) ==
    IF cubent_type = "String"
    THEN LET body == replace(value, "\\", <<"\\", "\\">>)
         IN  IF find(body, "'") # -1 /\ find(body, "'") > find(body, "\"")
             THEN "\"" \o Str(replace(body, "\"", <<"\\", "\"">>)) \o "\""
             ELSE "'" \o Str(replace(body, "'", <<"\\", "'">>)) \o "'"
    ELSE IF cubent_type = "Byte" THEN Str(value) \o "B"
    ELSE IF cubent_type = "Boolean"
    THEN (IF value = kw_true THEN "true" ELSE "false")
    ELSE IF cubent_type = "Short" THEN Str(value) \o "S"
    ELSE IF cubent_type = "Long" THEN Str(value) \o "L"
    ELSE IF cubent_type = "Float" THEN Str(value) \o "F"
    ELSE Str(value)

\* str.lower() of a type name
LowerType(type) ==
    CASE type = "Byte" -> "byte" [] type = "Short" -> "short"
      [] type = "Int" -> "int" [] type = "Long" -> "long"
      [] type = "Float" -> "float" [] type = "Double" -> "double"
      [] type = "Boolean" -> "boolean" [] type = "String" -> "string"
      [] type = "Any" -> "any" [] OTHER -> "void"

\* a conversion that accepts only what needs no line
write_type_conversion_strict(current_type, target_type, storage) ==
    IF \/ current_type = target_type
       \/ current_type = "Any" \/ target_type = "Any"
    THEN [st |-> "ok", lines |-> <<>>]
    ELSE [st |-> "no", lines |-> <<>>]

\* write_type_conversion: [st, lines]; st is "ok" (True), "no" (False) or
\* "raise": CubentType.Void is a tuple, and a tuple has no path
write_type_conversion(current_type, target_type, storage) ==
    IF "Void" \in {current_type, target_type}
    THEN [st |-> "raise", lines |-> <<>>]
    ELSE IF \/ current_type = target_type
            \/ current_type = "Any" \/ target_type = "Any"
    THEN [st |-> "ok", lines |-> <<>>]
    ELSE IF /\ current_type \in {"Boolean", "Byte", "Short", "Int", "Long",
                                 "Float", "Double"}
            /\ target_type \in {"Byte", "Short", "Int", "Long", "Float",
                                "Double"}
    THEN [st |-> "ok", lines |-> <<
        "execute store result storage " \o storage \o " Stack[-1].Value "
            \o LowerType(target_type) \o " 1.0 run data get storage "
            \o storage \o " Stack[-1].Value" >>]
    ELSE IF /\ current_type \in {"Boolean", "Byte", "Short", "Int", "Long",
                                 "Float", "Double"}
            /\ target_type = "Boolean"
    THEN [st |-> "ok", lines |-> <<
        "execute store result score 1 " \o CUBENT_SCOREBOARD
            \o " run data get storage " \o storage \o " Stack[-1].Value",
        "execute if score 1 " \o CUBENT_SCOREBOARD
            \o " matches 1.. run data modify storage " \o storage
            \o " Stack[-1].Value set value true",
        "execute if score 1 " \o CUBENT_SCOREBOARD
            \o " matches ..0 run data modify storage " \o storage
            \o " Stack[-1].Value set value false" >>]
    ELSE [st |-> "no", lines |-> <<>>]

\* uuid.uuid4().hex of the k-th helper: a name no other file has
uuid4(k) == "u" \o Str(NatStr(k))

\* The state of one write_commands call: st is "ok" while the loop runs and
\* when it returns True, "fail" once it returned False, "raise" once an
\* exception left it; error is self.error; lines is what was written to
\* mcfunction_file; files are the helper files opened so far, uuids their
\* number; path is the local the CALL branch reassigns.
EmitState(path, scope, lines, uuids) ==
    [st |-> "ok", error |-> NoError, stack |-> <<>>, scope |-> scope,
     path |-> path, lines |-> lines, files |-> <<>>, uuids |-> uuids]

Pop(stack) == SubSeq(stack, 1, Len(stack) - 1)
Top(stack) == stack[Len(stack)]

EmitRaise(S, exc) == [S EXCEPT !.st = "raise", !.error = Exception(exc)]

\* self.error = CompilationError(command.context, message); return False
EmitFail(S, t, fp, command, message, args) ==
    LET e == CompilationError(t, fp, command.position, message, args)
    IN  [S EXCEPT !.st = IF e.kind = "CompilationError" THEN "fail"
                         ELSE "raise",
                  !.error = e]

Write(S, new) == [S EXCEPT !.lines = @ \o new]

\* the prologue, line 795
Prologue(storage) == <<
    "scoreboard objectives add " \o CUBENT_SCOREBOARD \o " dummy",
    "data modify storage " \o storage \o " Stack set value []",
    "execute unless data storage " \o storage
        \o " Variables run data modify storage " \o storage
        \o " Variables set value {}" >>

\* Operation.LOAD, lines 798-820
EmitLoad(S, storage, command) ==
    Write([S EXCEPT !.stack = Append(@, command.type)],
          << "data modify storage " \o storage
                \o " Stack append value {Value:"
                \o Raw(command.type, command.value) \o "}" >>)

\* Operation.DECLARE_VAR, lines 821-826: nothing is written
EmitDeclareVar(S, t, fp, command) ==
    IF S.stack = <<>> THEN EmitRaise(S, "IndexError")
    ELSE LET d == declare_variable(S.scope, command.name, Top(S.stack))
             popped == [S EXCEPT !.stack = Pop(@)]
         IN  IF ~d.ok
             THEN EmitFail(popped, t, fp, command,
                           "Can't declare existing variable",
                           <<command.name>>)
             ELSE [popped EXCEPT !.scope = d.scope]

\* the two lines that move Stack[-1] into a variable, line 837
StoreLines(storage, name) == <<
    "data modify storage " \o storage \o " Variables." \o Str(name)
        \o " set from storage " \o storage \o " Stack[-1]",
    "data remove storage " \o storage \o " Stack[-1]" >>

\* Operation.SET_VAR, lines 827-837
EmitSetVar(S, t, fp, storage, command) ==
    IF S.stack = <<>> THEN EmitRaise(S, "IndexError")
    ELSE LET object_type == Top(S.stack)
             variable_type == get_variable(S.scope, command.name)
             popped == [S EXCEPT !.stack = Pop(@)]
         IN  IF variable_type = "None"
             THEN EmitFail(popped, t, fp, command, "Undefined variable",
                           <<command.name>>)
             ELSE IF variable_type # object_type
             THEN EmitFail(popped, t, fp, command, "Can't put object to variable",
                           <<object_type, variable_type, command.name>>)
             ELSE Write(popped, StoreLines(storage, command.name))

\* Operation.GET_VAR, lines 838-846
EmitGetVar(S, t, fp, storage, command) ==
    LET variable_type == get_variable(S.scope, command.name)
    IN  IF variable_type # "None"
        THEN Write([S EXCEPT !.stack = Append(@, variable_type)],
                   << "data modify storage " \o storage
                         \o " Stack append from storage " \o storage
                         \o " Variables." \o Str(command.name) >>)
        ELSE EmitFail(S, t, fp, command, "Undefined variable",
                      <<command.name>>)

\* Operation.GET_PROP and SET_PROP, lines 847-864: CubentType has no
\* has_property
EmitProperty(S) ==
    IF S.stack = <<>> THEN EmitRaise(S, "IndexError")
    ELSE EmitRaise([S EXCEPT !.stack = Pop(@)], "AttributeError")

\* Operation.GET_ARG, lines 865-868: parameters is a dict keyed by the
\* names, index is an int
EmitGetArg(S) == EmitRaise(S, "KeyError")

\* Operation.ADD, lines 904-916
EmitAdd(S, t, fp, storage, command) ==
    IF Len(S.stack) < 2 THEN EmitRaise(S, "IndexError")
    ELSE LET second_type == S.stack[Len(S.stack)]
             first_type == S.stack[Len(S.stack) - 1]
             popped == [S EXCEPT !.stack = Pop(Pop(@))]
             integers == {"Byte", "Short", "Int", "Long"}
         IN  IF first_type \notin integers \/ second_type \notin integers
             THEN EmitFail(popped, t, fp, command, "Can't add",
                           <<second_type, first_type>>)
             ELSE Write([popped EXCEPT !.stack = Append(@, "Int")], <<
                 "execute store result score 1 " \o CUBENT_SCOREBOARD
                     \o " run data get storage " \o storage
                     \o " Stack[-1].Value",
                 "data remove storage " \o storage \o " Stack[-1]",
                 "execute store result score 2 " \o CUBENT_SCOREBOARD
                     \o " run data get storage " \o storage
                     \o " Stack[-1].Value",
                 "data remove storage " \o storage \o " Stack[-1]",
                 "scoreboard players operation 1 " \o CUBENT_SCOREBOARD
                     \o " += 2 " \o CUBENT_SCOREBOARD,
                 "data modify storage " \o storage
                     \o " Stack append value {}",
                 "execute store result storage " \o storage
                     \o " Stack[-1].Value " \o LowerType(first_type)
                     \o " 1.0 run scoreboard players get 1 "
                     \o CUBENT_SCOREBOARD >>)

\* Operation.EQ, lines 917-921
EmitEq(S, storage) ==
    IF Len(S.stack) < 2 THEN EmitRaise(S, "IndexError")
    ELSE Write([S EXCEPT !.stack = Append(Pop(Pop(@)), "Boolean")], <<
        "execute store success score 1 " \o CUBENT_SCOREBOARD
            \o " run data modify storage " \o storage
            \o " Stack[-1] set from storage " \o storage \o " Stack[-2]",
        "data remove storage " \o storage \o " Stack[-1]",
        "execute if score 1 " \o CUBENT_SCOREBOARD
            \o " matches 0 run data modify storage " \o storage
            \o " Stack[-1].Value set value true",
        "execute if score 1 " \o CUBENT_SCOREBOARD
            \o " matches 1 run data modify storage " \o storage
            \o " Stack[-1].Value set value false" >>)

\* the parameter loop of Operation.CALL, lines 877-883: one argument is
\* popped for each parameter of the target
RECURSIVE CallParameters(_, _, _, _, _, _)
CallParameters(S, t, fp, storage, command, parameters) ==
    IF parameters = <<>> THEN S
    ELSE IF S.stack = <<>> THEN EmitRaise(S, "IndexError")
    ELSE LET argument_type == Top(S.stack)
             parameter == parameters[1]
             popped == [S EXCEPT !.stack = Pop(@)]
             conversion == write_type_conversion(argument_type,
                                                 parameter.type, storage)
         IN  IF conversion.st = "raise"
             THEN EmitRaise(popped, "AttributeError")
             ELSE IF conversion.st = "no"
             THEN EmitFail(popped, t, fp, command,
                           "Expected argument of type, but got",
                           <<parameter.name, parameter.type, argument_type>>)
             ELSE CallParameters(
                      Write(popped, conversion.lines \o <<
                          "data modify storage " \o CUBENT_STORAGE
                              \o " Arguments append from storage "
                              \o storage \o " Stack[-1]",
                          "data remove storage " \o storage
                              \o " Stack[-1]" >>),
                      t, fp, storage, command, Tail(parameters))

\* Operation.CALL, lines 869-892: the first function of self.functions with
\* the path is the target; nothing is pushed for its return value
EmitCall(S, t, fp, storage, command, functions) ==
    LET path == command.path
        started == Write([S EXCEPT !.path = path], <<
                       "data modify storage " \o CUBENT_STORAGE
                           \o " Arguments set value []" >>)
        targets == { i \in 1..Len(functions) : functions[i].path = path }
        target_function ==
            functions[CHOOSE i \in targets : \A j \in targets : i <= j]
        namespace == Str(JoinDots(SubSeq(path, 1, Len(path) - 1)))
        called == CallParameters(started, t, fp, storage, command,
                                 target_function.parameters)
    IN  IF targets = {}
        THEN EmitFail(started, t, fp, command, "Undefined function",
                      <<JoinDots(path)>>)
        ELSE IF called.st # "ok" THEN called
        ELSE IF target_function.class = "CubentFunction"
        THEN Write(called, << "function " \o namespace \o ":"
                                  \o Str(path[Len(path)]) >>)
        ELSE Write(called, << "function "
                                  \o Str(target_function.location) >>)

RECURSIVE write_commands(_, _, _, _, _, _, _, _, _)

\* Operation.DO_IF, lines 893-903, with write_internal_function, lines
\* 925-930: the block goes to a helper file of its own, written with a child
\* scope; a condition that does not convert returns False and sets no error
EmitDoIf(S, t, fp, build_uuid, storage, command, parameters, functions) ==
    IF S.stack = <<>> THEN EmitRaise(S, "IndexError")
    ELSE LET popped == [S EXCEPT !.stack = Pop(@)]
             conversion == write_type_conversion(Top(S.stack), "Boolean",
                                                 storage)
             converted == Write(popped, conversion.lines)
             internal_function_name == uuid4(S.uuids + 1)
             inner == write_commands(t, fp, build_uuid, S.path,
                                     command.block, parameters, functions,
                                     ChildScope(S.scope), S.uuids + 1)
             written ==
                 [converted EXCEPT
                     !.uuids = inner.uuids,
                     !.scope = SubSeq(inner.scope, 1, Len(S.scope)),
                     !.files = @ \o inner.files \o
                               << [name |-> internal_function_name,
                                   lines |-> inner.lines] >>]
         IN  IF conversion.st = "raise"
             THEN EmitRaise(popped, "AttributeError")
             ELSE IF conversion.st = "no" THEN [popped EXCEPT !.st = "fail"]
             ELSE IF inner.st # "ok"
             THEN [written EXCEPT !.st = inner.st, !.error = inner.error]
             ELSE Write(written, <<
                 "execute store result score 1 " \o CUBENT_SCOREBOARD
                     \o " run data get storage " \o storage
                     \o " Stack[-1].Value",
                 "data remove storage " \o storage \o " Stack[-1]",
                 "execute if score 1 " \o CUBENT_SCOREBOARD
                     \o " matches 1 run function " \o build_uuid \o ":"
                     \o internal_function_name >>)

\* one turn of the command loop, lines 797-921; the operations with no
\* branch (SUB, MUL, DIV, NEQ, OR, AND) do nothing
EmitCommand(S, t, fp, build_uuid, storage, command, parameters, functions) ==
    CASE command.operation = "LOAD" -> EmitLoad(S, storage, command)
      [] command.operation = "DECLARE_VAR" -> EmitDeclareVar(S, t, fp, command)
      [] command.operation = "SET_VAR" ->
            EmitSetVar(S, t, fp, storage, command)
      [] command.operation = "GET_VAR" ->
            EmitGetVar(S, t, fp, storage, command)
      [] command.operation \in {"GET_PROP", "SET_PROP"} -> EmitProperty(S)
      [] command.operation = "GET_ARG" -> EmitGetArg(S)
      [] command.operation = "CALL" ->
            EmitCall(S, t, fp, storage, command, functions)
      [] command.operation = "DO_IF" ->
            EmitDoIf(S, t, fp, build_uuid, storage, command, parameters,
                     functions)
      [] command.operation = "ADD" -> EmitAdd(S, t, fp, storage, command)
      [] command.operation = "EQ" -> EmitEq(S, storage)
      [] OTHER -> S

RECURSIVE EmitLoop(_, _, _, _, _, _, _, _)
EmitLoop(S, t, fp, build_uuid, storage, commands, parameters, functions) ==
    IF commands = <<>> \/ S.st # "ok" THEN S
    ELSE EmitLoop(EmitCommand(S, t, fp, build_uuid, storage, commands[1],
                              parameters, functions),
                  t, fp, build_uuid, storage, Tail(commands), parameters,
                  functions)

\* write_commands, lines 790-923: the final state of the call; t and fp are
\* the source text and the function path of the commands' contexts
write_commands(t, fp, build_uuid, path, commands, parameters, functions, scope, uuids) ==
    LET storage == function_storage(build_uuid, path)
    IN  EmitLoop(EmitState(path, scope, Prologue(storage), uuids),
                 t, fp, build_uuid, storage, commands, parameters, functions)

(***************************************************************************)
(* Compiler.compile(): the version gate, the output directory, the parse   *)
(* of every source file, the pack files and the emission of every          *)
(* function.  A path below the output directory is the sequence of its     *)
(* components; the output directory is a set of directories and a function *)
(* from file paths to contents.                                            *)
(***************************************************************************)

MinecraftVersion(major, minor, phase) ==
    [major |-> major, minor |-> minor, phase |-> phase]

\* MinecraftVersion.__lt__, lines 127-128
MinecraftVersion_lt(self, other) ==
    \/ self.major < other.major
    \/ self.minor < other.minor
    \/ self.phase < other.phase

MINIMAL_MAJOR == 1
MINIMAL_MINOR == 14
MINIMAL_PHASE == 1
MINIMAL_VERSION ==
    MinecraftVersion(MINIMAL_MAJOR, MINIMAL_MINOR, MINIMAL_PHASE)

\* self.error = f"Minimal Minecraft version for Cubent is {MINIMAL_VERSION}"
MinimalVersionError ==
    [kind |-> "str", position |-> NoPosition,
     message |-> "Minimal Minecraft version for Cubent is 1.14.1",
     args |-> <<>>, function_path |-> NoBody]

\* no output directory at all
NoDisk == [dirs |-> {}, files |-> <<>>]

\* shutil.rmtree(out) if it exists, then os.makedirs(out)
EmptyDisk == [dirs |-> {<<>>}, files |-> <<>>]

Prefixes(p) == { SubSeq(p, 1, n) : n \in 0..Len(p) }

\* os.makedirs(p) without exist_ok: [ok, disk]; FileExistsError when p is
\* there already
makedirs(d, p) ==
    IF p \in d.dirs \/ p \in DOMAIN d.files
    THEN [ok |-> FALSE, disk |-> d]
    ELSE [ok |-> TRUE, disk |-> [d EXCEPT !.dirs = @ \cup Prefixes(p)]]

\* open(p, "w") ... write ... close
WriteFile(d, p, content) == [d EXCEPT !.files = (p :> content) @@ @]

RECURSIVE WriteFiles(_, _, _)
WriteFiles(d, directory, fs) ==
    IF fs = <<>> THEN d
    ELSE WriteFiles(WriteFile(d, Append(directory,
                                        fs[1].name \o ".mcfunction"),
                              fs[1].lines),
                    directory, Tail(fs))

\* uuid.uuid4().hex of line 285
build_uuid == "b0"

\* json.dump of the pack description, lines 287-293
PackMeta ==
    << "{\"pack\": {\"pack_format\": pack_version, "
         \o "\"description\": description}}" >>

\* shutil.copyfile(icon, ...), line 295
PackIcon == << "icon" >>

\* str.split(sep) of a sequence of characters: the parts, as sequences
RECURSIVE split(_, _)
split(cs, sep) ==
    IF ~Contains(cs, sep) THEN <<cs>>
    ELSE LET i == find(cs, sep) + 1
         IN  <<SubSeq(cs, 1, i - 1)>> \o split(SubSeq(cs, i + 1, Len(cs)), sep)

\* the components os.path.join adds for the names given (none is absolute):
\* empty names add nothing and a name with "/" adds one for each part
RECURSIVE Components(_)
Components(names) ==
    IF names = <<>> THEN <<>>
    ELSE LET parts == split(names[1], "/")
         IN  [i \in 1..Len(SelectSeq(parts, LAMBDA x : x # <<>>)) |->
                 Str(SelectSeq(parts, LAMBDA x : x # <<>>)[i])]
             \o Components(Tail(names))

\* what applied and outcome hold while no function is observed alone
NoApplication == [function |-> "none", arguments |-> <<>>]

NotCalled == [st |-> "not called"]

UnitIdle ==
    /\ applied = NoApplication
    /\ outcome = NotCalled

\* what the variables of compile() hold while the lexer is observed alone
PipeIdle ==
    /\ mcversion = MINIMAL_VERSION
    /\ source_path = <<>>
    /\ disk = NoDisk
    /\ pc = "idle"
    /\ returned = "None"
    /\ self_error = NoError
    /\ self_functions = <<>>
    /\ origins = <<>>
    /\ cursor = [directory |-> 1, file |-> 1, function |-> 1]
    /\ helpers = 0
    /\ emitted = <<>>

-----------------------------------------------------------------------------
(* The lexer as a state machine: one Lexer object over one text, driven by *)
(* next() and lookahead() calls in any order.                              *)

MaxTextLen == 3
ExtraCalls == 2
IntSpan == 12

\* characters of the texts that are enumerated exhaustively
LexAlphabet == {"\n", "/", "*", "=", "1", ".", "'", "\\", "f", NUL}

ShortTexts == UNION { [1..n -> LexAlphabet] : n \in 0..MaxTextLen }

\* the integers whose decimal text is lexed: the ends of the signed 32-bit
\* range, the byte and short limits, and every integer near zero
IntInputs ==
    { -2147483647 - 1, -2147483647, -32769, -129, 127, 128, 32767, 32768,
      65536, 2147483646, 2147483647 } \cup ((0 - IntSpan)..IntSpan)

\* unsuffixed digit strings whose value is above 2147483647
OverflowTexts ==
    { <<"2","1","4","7","4","8","3","6","4","8">>,
      <<"4","2","9","4","9","6","7","2","9","5">>,
      <<"4","2","9","4","9","6","7","2","9","6">>,
      <<"3","0","0","0","0","0","0","0","0","0">>,
      <<"1","0","0","0","0","0","0","0","0","0","0">>,
      <<"0","9","9","9","9","9","9","9","9","9","9">> }

\* suffixed literals at the limits of their kinds
SuffixTexts ==
    { <<"1","2","7","b">>, <<"1","2","8","b">>, <<"1","2","7","B">>,
      <<"3","2","7","6","7","s">>, <<"3","2","7","6","8","s">>,
      <<"7","l">>, <<"1",".","5","f">>, <<"1",".","5","d">>, <<"1",".","b">>,
      <<"=","=">>, <<"a","b","1"," ","v","a","r">> }

LexTexts ==
    ShortTexts \cup { PyStr(n) : n \in IntInputs } \cup OverflowTexts
        \cup SuffixTexts

NoCall == [kind |-> "nocall", type |-> "None", position |-> NoPosition,
           body |-> NoBody]

LexInit ==
    /\ text \in LexTexts
    /\ lx = LexerInit
    /\ result = NoCall
    /\ call = "init"
    /\ prevCall = "init"
    /\ before = LexerInit
    /\ prevResult = NoCall
    /\ nexts = <<>>
    /\ PipeIdle
    /\ UnitIdle

\* a call of lexer.next()
LexNext ==
    /\ result.kind # "raise"
    /\ Len(nexts) < Len(text) + 1 + ExtraCalls
    /\ LET r == next(text, lx)
       IN  /\ lx' = r.lx
           /\ result' = r.lexeme
           /\ nexts' = Append(nexts, r.lexeme)
    /\ call' = "next"
    /\ prevCall' = call
    /\ before' = lx
    /\ prevResult' = result
    /\ UNCHANGED text
    /\ UNCHANGED <<pipevars, unitvars>>

\* a call of lexer.lookahead()
LexLookahead ==
    /\ result.kind # "raise"
    /\ LET r == lookahead(text, lx)
       IN  /\ lx' = r.lx
           /\ result' = r.lexeme
    /\ call' = "lookahead"
    /\ prevCall' = call
    /\ before' = lx
    /\ prevResult' = result
    /\ UNCHANGED <<text, nexts>>
    /\ UNCHANGED <<pipevars, unitvars>>

LexerNext == LexNext \/ LexLookahead

SpecLexer == LexInit /\ [][LexerNext]_vars

-----------------------------------------------------------------------------
(* compile() as a state machine: one call of Compiler.compile, a step for  *)
(* each turn of its loops.                                                 *)

\* what the lexer variables hold while compile() runs
LexIdle ==
    /\ text = <<>>
    /\ lx = LexerInit
    /\ result = NoCall
    /\ call = "init"
    /\ prevCall = "init"
    /\ before = LexerInit
    /\ prevResult = NoCall
    /\ nexts = <<>>

(***************************************************************************)
(* The source texts compile() is run on.  Every text is written out as its *)
(* sequence of characters; the comment before it shows it as a string.     *)
(***************************************************************************)

\* import c.b;import e.s;
ImportsText ==
    <<"i","m","p","o","r","t"," ","c",".","b",";","i","m","p","o","r","t",
      " ","e",".","s",";">>

\* namespace c{mcfunction "m:r" b():Void;}namespace e{function s(p:Int):Int{}}
CalleesText ==
    <<"n","a","m","e","s","p","a","c","e"," ","c","{","m","c","f","u","n",
      "c","t","i","o","n"," ","\"","m",":","r","\""," ","b","(",")",":","V",
      "o","i","d",";","}","n","a","m","e","s","p","a","c","e"," ","e","{",
      "f","u","n","c","t","i","o","n"," ","s","(","p",":","I","n","t",")",
      ":","I","n","t","{","}","}">>

\* namespace d{function f():Void{
MainOpen ==
    <<"n","a","m","e","s","p","a","c","e"," ","d","{","f","u","n","c","t",
      "i","o","n"," ","f","(",")",":","V","o","i","d","{">>

\* }}
MainClose ==
    <<"}","}">>

\* a file with the callees b (an mcfunction, no parameter, Void) and s (one
\* Int parameter, returns Int) and the function d.f with the body given
Program(body) ==
    ImportsText \o CalleesText \o MainOpen \o body \o MainClose

\* the path of the function f of namespace d, the one Program gives a body
MainPath == << <<"d">>, <<"f">> >>

\* var x=
VarXIs ==
    <<"v","a","r"," ","x","=">>

\* var x=<expression>;
VarX(expression) == VarXIs \o expression \o <<";">>

\* the operators of Compiler.operators, lines 247-252
OperatorTexts ==
    { <<"|","|">>, <<"&","&">>, <<"=","=">>, <<"!","=">>, <<"+">>, <<"-">>,
      <<"*">>, <<"/">> }

\* 1<operator>2
Binary(operator) == <<"1">> \o operator \o <<"2">>

\* the primaries of a+b*c==d
Primaries == { <<"1">>, <<"2">>, <<"3">>, <<"7">> }

Precedence(a, b, c, d) == a \o <<"+">> \o b \o <<"*">> \o c \o <<"=","=">> \o d

\* var x=1;
StVar ==
    <<"v","a","r"," ","x","=","1",";">>

\* var x=1+2;
StVarAdd ==
    <<"v","a","r"," ","x","=","1","+","2",";">>

\* x=2;
StSet ==
    <<"x","=","2",";">>

\* x='a';
StSetString ==
    <<"x","=","'","a","'",";">>

\* b();
StCall ==
    <<"b","(",")",";">>

\* s(1);
StCallInt ==
    <<"s","(","1",")",";">>

\* b(1);
StCallExtra ==
    <<"b","(","1",")",";">>

\* if(true){var y=1;}
StIf ==
    <<"i","f","(","t","r","u","e",")","{","v","a","r"," ","y","=","1",";",
      "}">>

\* if(x==1){x=2;}
StIfSet ==
    <<"i","f","(","x","=","=","1",")","{","x","=","2",";","}">>

\* x.b=1;
StSetProperty ==
    <<"x",".","b","=","1",";">>

\* the statements that bodies are made of
Statements ==
    { StVar, StVarAdd, StSet, StSetString, StCall,
      StCallInt, StCallExtra, StIf, StIfSet, StSetProperty }

\* var y=s(1);
StVarCall ==
    <<"v","a","r"," ","y","=","s","(","1",")",";">>

\* if('a'){}
StIfString ==
    <<"i","f","(","'","a","'",")","{","}">>

\* if(true){if(true){var y=1-2;}}
StIfNested ==
    <<"i","f","(","t","r","u","e",")","{","i","f","(","t","r","u","e",")",
      "{","v","a","r"," ","y","=","1","-","2",";","}","}">>

\* s(b());
StCallVoidArgument ==
    <<"s","(","b","(",")",")",";">>

\* var x=1;var x=2;
StVarTwice ==
    <<"v","a","r"," ","x","=","1",";","v","a","r"," ","x","=","2",";">>

\* var x=1;if(true){x=2;var x='a';}
StSetOuter ==
    <<"v","a","r"," ","x","=","1",";","i","f","(","t","r","u","e",")","{",
      "x","=","2",";","v","a","r"," ","x","=","'","a","'",";","}">>

\* bodies of their own
MoreBodies ==
    { StVarCall, StIfString, StIfNested, StCallVoidArgument,
      StVarTwice, StSetOuter }

MaxStatements == 2

RECURSIVE Concat(_)
Concat(ss) == IF ss = <<>> THEN <<>> ELSE ss[1] \o Concat(Tail(ss))

\* every sequence of at most MaxStatements statements
Bodies ==
    { Concat(ss) : ss \in UNION { [1..n -> Statements] : n \in 0..MaxStatements } }

OperatorBodies == { VarX(Binary(operator)) : operator \in OperatorTexts }

PrecedenceBodies ==
    { VarX(Precedence(a, b, c, d)) : a \in Primaries, b \in Primaries, c \in Primaries, d \in Primaries }

Directory(files) == [isdir |-> TRUE, files |-> files, mcfunctions |-> <<>>]

NotDirectory == [isdir |-> FALSE, files |-> <<>>, mcfunctions |-> <<>>]

\* one source directory with one file
OneFile(t) == << Directory(<<t>>) >>

\* namespace d{function f():Void{}}
FileF ==
    <<"n","a","m","e","s","p","a","c","e"," ","d","{","f","u","n","c","t",
      "i","o","n"," ","f","(",")",":","V","o","i","d","{","}","}">>

\* namespace e{function g():Void{}}
FileG ==
    <<"n","a","m","e","s","p","a","c","e"," ","e","{","f","u","n","c","t",
      "i","o","n"," ","g","(",")",":","V","o","i","d","{","}","}">>

\* namespace d{function f():Void{}function f():Void{}}
FileTwice ==
    <<"n","a","m","e","s","p","a","c","e"," ","d","{","f","u","n","c","t",
      "i","o","n"," ","f","(",")",":","V","o","i","d","{","}","f","u","n",
      "c","t","i","o","n"," ","f","(",")",":","V","o","i","d","{","}","}">>

\* namespace d{function f():Void{}mcfunction "m:r" f():Void;}
FileBoth ==
    <<"n","a","m","e","s","p","a","c","e"," ","d","{","f","u","n","c","t",
      "i","o","n"," ","f","(",")",":","V","o","i","d","{","}","m","c","f",
      "u","n","c","t","i","o","n"," ","\"","m",":","r","\""," ","f","(",")",
      ":","V","o","i","d",";","}">>

\* namespace d{function f():Void{}function g():Void{}}
FileSameNamespace ==
    <<"n","a","m","e","s","p","a","c","e"," ","d","{","f","u","n","c","t",
      "i","o","n"," ","f","(",")",":","V","o","i","d","{","}","f","u","n",
      "c","t","i","o","n"," ","g","(",")",":","V","o","i","d","{","}","}">>

\* namespace d{mcfunction "m:r" r():Void;mcfunction "m:q/r" r():Void;}
FileReload ==
    <<"n","a","m","e","s","p","a","c","e"," ","d","{","m","c","f","u","n",
      "c","t","i","o","n"," ","\"","m",":","r","\""," ","r","(",")",":","V",
      "o","i","d",";","m","c","f","u","n","c","t","i","o","n"," ","\"","m",
      ":","q","/","r","\""," ","r","(",")",":","V","o","i","d",";","}">>

\* namespace d{mcfunction 'a:b:c' r():Void;}
FileNoLocation ==
    <<"n","a","m","e","s","p","a","c","e"," ","d","{","m","c","f","u","n",
      "c","t","i","o","n"," ","'","a",":","b",":","c","'"," ","r","(",")",
      ":","V","o","i","d",";","}">>

\* namespace d{function f():Void{var x=1}}
FileBroken ==
    <<"n","a","m","e","s","p","a","c","e"," ","d","{","f","u","n","c","t",
      "i","o","n"," ","f","(",")",":","V","o","i","d","{","v","a","r"," ",
      "x","=","1","}","}">>

\* import c.b;
FileWholeImports ==
    <<"i","m","p","o","r","t"," ","c",".","b",";">>

\* namespace d{function f(p:Int):Void{var x=1;}mcfunction "m:r" g():Void;}
FileWholeBlock ==
    <<"n","a","m","e","s","p","a","c","e"," ","d","{","f","u","n","c","t",
      "i","o","n"," ","f","(","p",":","I","n","t",")",":","V","o","i","d",
      "{","v","a","r"," ","x","=","1",";","}","m","c","f","u","n","c","t",
      "i","o","n"," ","\"","m",":","r","\""," ","g","(",")",":","V","o","i",
      "d",";","}">>

\* namespace a.b{function f():Void{}}
FileDotted ==
    <<"n","a","m","e","s","p","a","c","e"," ","a",".","b","{","f","u","n",
      "c","t","i","o","n"," ","f","(",")",":","V","o","i","d","{","}","}">>

\* namespace a.b.l{function f():Void{}}
FileDottedTwice ==
    <<"n","a","m","e","s","p","a","c","e"," ","a",".","b",".","l","{","f",
      "u","n","c","t","i","o","n"," ","f","(",")",":","V","o","i","d","{",
      "}","}">>

\* namespace d{function f(p:Int):Void{var x=p;}}
FileParameter ==
    <<"n","a","m","e","s","p","a","c","e"," ","d","{","f","u","n","c","t",
      "i","o","n"," ","f","(","p",":","I","n","t",")",":","V","o","i","d",
      "{","v","a","r"," ","x","=","p",";","}","}">>

\* namespace d{function f(pq:Int):Void{var x=pq;}}
FileParameterLong ==
    <<"n","a","m","e","s","p","a","c","e"," ","d","{","f","u","n","c","t",
      "i","o","n"," ","f","(","p","q",":","I","n","t",")",":","V","o","i",
      "d","{","v","a","r"," ","x","=","p","q",";","}","}">>

\* namespace d{function f(pq:Int,p:String):Void{var x=p;}}
FileParameterSecond ==
    <<"n","a","m","e","s","p","a","c","e"," ","d","{","f","u","n","c","t",
      "i","o","n"," ","f","(","p","q",":","I","n","t",",","p",":","S","t",
      "r","i","n","g",")",":","V","o","i","d","{","v","a","r"," ","x","=",
      "p",";","}","}">>

FileWhole == FileWholeImports \o FileWholeBlock

\* FileWhole cut after n characters
Truncated(n) == SubSeq(FileWhole, 1, n)

\* the cuts that leave a text outside the grammar: all but the empty text,
\* the imports alone and the whole file
Deviating == (1..(Len(FileWhole) - 1)) \ {Len(FileWholeImports)}

\* files with a dotted namespace, with parameters used in a body, and the
\* truncated ones
MoreFiles ==
    { FileDotted, FileDottedTwice, FileParameter, FileParameterLong,
      FileParameterSecond }
    \cup { Truncated(n) : n \in Deviating }

\* source directories with several files (in either order of the glob),
\* with declarations of one path, with an mcfunction file, with none
Trees ==
    { <<>>, <<NotDirectory>>, <<Directory(<<FileF>>), NotDirectory>>,
      <<Directory(<<FileF, FileG>>)>>, <<Directory(<<FileG, FileF>>)>>,
      <<Directory(<<FileF, FileF>>)>>, <<Directory(<<FileF>>), Directory(<<FileF>>)>>,
      <<Directory(<<FileF, FileBroken>>)>>,
      <<Directory(<<>>), Directory(<<FileG>>)>>,
      <<[Directory(<<FileReload>>) EXCEPT !.mcfunctions = <<"m", "r">> :> <<"say hi">>]>> }
        \cup { OneFile(t) : t \in { FileTwice, FileBoth, FileSameNamespace, FileNoLocation, FileBroken } }

\* an output directory left by an earlier run
StaleDisk ==
    [dirs |-> Prefixes(<<"data", "old", "functions">>),
     files |-> (<<"pack.mcmeta">> :> PackMeta) @@ (<<"pack.png">> :> PackIcon)
                 @@ (<<"data", "old", "functions", "main.mcfunction">> :> <<"say old">>)]

MaxMajor == 2
VersionSpan == 1
MaxPhase == 2

\* the versions around MINIMAL_VERSION
Versions ==
    { MinecraftVersion(major, minor, phase) :
        major \in 0..MaxMajor,
        minor \in (MINIMAL_MINOR - VersionSpan)..(MINIMAL_MINOR + VersionSpan),
        phase \in 0..MaxPhase }

Init ==
    /\ LexIdle
    /\ UnitIdle
    /\ pc = "start"
    /\ returned = "None"
    /\ self_error = NoError
    /\ self_functions = <<>>
    /\ origins = <<>>
    /\ cursor = [directory |-> 1, file |-> 1, function |-> 1]
    /\ helpers = 0
    /\ emitted = <<>>
    /\ \/ /\ mcversion \in Versions
          /\ source_path = OneFile(Program(StVarAdd))
          /\ disk \in {NoDisk, StaleDisk}
       \/ /\ mcversion = MINIMAL_VERSION
          /\ source_path \in
                { OneFile(Program(body)) :
                    body \in Bodies \cup MoreBodies \cup OperatorBodies
                             \cup PrecedenceBodies } \cup Trees
                \cup { OneFile(t) : t \in MoreFiles }
          /\ disk \in {NoDisk, StaleDisk}

\* return False / return True / an exception leaves compile()
Return(value) == pc' = "done" /\ returned' = value

\* lines 270-272: the gate, before anything touches the output directory
RejectVersion ==
    /\ pc = "start"
    /\ MinecraftVersion_lt(mcversion, MINIMAL_VERSION)
    /\ self_error' = MinimalVersionError
    /\ Return("False")
    /\ UNCHANGED <<mcversion, source_path, disk, self_functions, origins,
                   cursor, helpers, emitted>>
    /\ UNCHANGED <<lexvars, unitvars>>

\* lines 274-276: the output directory is removed and made again
PrepareOutput ==
    /\ pc = "start"
    /\ ~MinecraftVersion_lt(mcversion, MINIMAL_VERSION)
    /\ disk' = EmptyDisk
    /\ pc' = "parse"
    /\ UNCHANGED <<mcversion, source_path, returned, self_error,
                   self_functions, origins, cursor, helpers, emitted>>
    /\ UNCHANGED <<lexvars, unitvars>>

\* lines 279-280: a source path that is no directory; self.error stays None
NotADirectory ==
    /\ pc = "parse"
    /\ cursor.directory <= Len(source_path)
    /\ ~source_path[cursor.directory].isdir
    /\ Return("False")
    /\ UNCHANGED <<mcversion, source_path, disk, self_error, self_functions,
                   origins, cursor, helpers, emitted>>
    /\ UNCHANGED <<lexvars, unitvars>>

\* lines 281-283: compile_file on the next file of the directory
CompileFile ==
    /\ pc = "parse"
    /\ cursor.directory <= Len(source_path)
    /\ source_path[cursor.directory].isdir
    /\ cursor.file <= Len(source_path[cursor.directory].files)
    /\ \E t \in {source_path[cursor.directory].files[cursor.file]} :
       \E r \in {compile_file(t, self_functions)} :
           /\ self_functions' = r.functions
           /\ origins' = origins \o
                  [i \in 1..(Len(r.functions) - Len(self_functions)) |-> t]
           /\ IF r.st = "ok"
              THEN /\ cursor' = [cursor EXCEPT !.file = @ + 1]
                   /\ UNCHANGED <<pc, returned, self_error>>
              ELSE IF r.st = "fail"
              THEN self_error' = r.error /\ Return("False")
                   /\ UNCHANGED cursor
              ELSE Return(r.error.kind) /\ UNCHANGED <<cursor, self_error>>
    /\ UNCHANGED <<mcversion, source_path, disk, helpers, emitted>>
    /\ UNCHANGED <<lexvars, unitvars>>

\* line 278: the files of the directory are done, on to the next directory
NextDirectory ==
    /\ pc = "parse"
    /\ cursor.directory <= Len(source_path)
    /\ source_path[cursor.directory].isdir
    /\ cursor.file > Len(source_path[cursor.directory].files)
    /\ cursor' = [cursor EXCEPT !.directory = @ + 1, !.file = 1]
    /\ UNCHANGED <<mcversion, source_path, disk, pc, returned, self_error,
                   self_functions, origins, helpers, emitted>>
    /\ UNCHANGED <<lexvars, unitvars>>

\* lines 285-298 entered once the first source directory is done, whatever
\* directories are left
WritePack_early ==
    /\ pc = "parse"
    /\ cursor.directory > 1
    /\ LET packed == WriteFile(WriteFile(disk, <<"pack.mcmeta">>, PackMeta),
                               <<"pack.png">>, PackIcon)
           internal_directory == <<"data", build_uuid, "functions">>
       IN  disk' = makedirs(packed, internal_directory).disk
    /\ pc' = "emit"
    /\ UNCHANGED <<mcversion, source_path, returned, self_error,
                   self_functions, origins, cursor, helpers, emitted>>
    /\ UNCHANGED <<lexvars, unitvars>>

\* lines 285-298: pack.mcmeta, pack.png and the directory of the helpers
WritePack ==
    /\ pc = "parse"
    /\ cursor.directory > Len(source_path)
    /\ LET packed == WriteFile(WriteFile(disk, <<"pack.mcmeta">>, PackMeta),
                               <<"pack.png">>, PackIcon)
           internal_directory == <<"data", build_uuid, "functions">>
       IN  disk' = makedirs(packed, internal_directory).disk
    /\ pc' = "emit"
    /\ UNCHANGED <<mcversion, source_path, returned, self_error,
                   self_functions, origins, cursor, helpers, emitted>>
    /\ UNCHANGED <<lexvars, unitvars>>

\* lines 301-305: a function of the source language gets a directory of its
\* namespace and a file; write_cubent_function, lines 786-788
EmitCubentFunction ==
    /\ pc = "emit"
    /\ cursor.function <= Len(self_functions)
    /\ self_functions[cursor.function].class = "CubentFunction"
    /\ LET function == self_functions[cursor.function]
           namespace == SubSeq(function.path, 1, Len(function.path) - 1)
           name == function.path[Len(function.path)]
           function_directory ==
               <<"data", Str(JoinDots(namespace)), "functions">>
           made == makedirs(disk, function_directory)
       IN  IF ~made.ok
           THEN /\ Return("FileExistsError")
                /\ UNCHANGED <<disk, self_error, cursor, helpers, emitted>>
           ELSE \E w \in {write_commands(origins[cursor.function],
                                         JoinDots(namespace) \o <<".">> \o name,
                                         build_uuid, function.path,
                                         function.commands, function.parameters,
                                         self_functions, NewScope, helpers)} :
                /\ disk' = WriteFiles(WriteFile(made.disk,
                                               Append(function_directory,
                                                      Str(name) \o ".mcfunction"),
                                               w.lines),
                                     <<"data", build_uuid, "functions">>,
                                     w.files)
                /\ helpers' = w.uuids
                /\ emitted' = Append(emitted, [function |-> cursor.function,
                                               path |-> function.path,
                                               st |-> w.st,
                                               stack |-> w.stack,
                                               lines |-> w.lines])
                /\ IF w.st = "ok"
                   THEN /\ cursor' = [cursor EXCEPT !.function = @ + 1]
                        /\ UNCHANGED <<pc, returned, self_error>>
                   ELSE IF w.st = "fail"
                   THEN /\ Return("False")
                        /\ self_error' = w.error
                        /\ UNCHANGED cursor
                   ELSE /\ Return(w.error.kind)
                        /\ UNCHANGED <<self_error, cursor>>
    /\ UNCHANGED <<mcversion, source_path, self_functions, origins>>
    /\ UNCHANGED <<lexvars, unitvars>>

\* lines 311-314: the file of the mcfunction, from every source directory
\* that has it
RECURSIVE CopyFrom(_, _, _, _)
CopyFrom(d, directories, source, target) ==
    IF directories = <<>> THEN d
    ELSE CopyFrom(IF source \in DOMAIN directories[1].mcfunctions
                  THEN WriteFile(d, target, directories[1].mcfunctions[source])
                  ELSE d,
                  Tail(directories), source, target)

\* lines 306-314: an mcfunction gets the directory of its location, and its
\* file when a source directory has one
EmitMCFunction ==
    /\ pc = "emit"
    /\ cursor.function <= Len(self_functions)
    /\ self_functions[cursor.function].class = "MCFunction"
    /\ LET function == self_functions[cursor.function]
           parts == split(function.location, ":")
           namespace == parts[1]
           path == split(parts[2], "/")
           function_directory ==
               <<"data">> \o Components(<<namespace>>) \o <<"functions">>
                   \o Components(SubSeq(path, 1, Len(path) - 1))
           made == makedirs(disk, function_directory)
           source == Components(<<namespace>> \o path)
           target == Append(function_directory,
                            Str(path[Len(path)]) \o ".mcfunction")
       IN  IF Len(parts) # 2
           THEN Return("ValueError") /\ UNCHANGED <<disk, cursor>>
           ELSE IF ~made.ok
           THEN Return("FileExistsError") /\ UNCHANGED <<disk, cursor>>
           ELSE /\ disk' = CopyFrom(made.disk, source_path, source, target)
                /\ cursor' = [cursor EXCEPT !.function = @ + 1]
                /\ UNCHANGED <<pc, returned>>
    /\ UNCHANGED <<mcversion, source_path, self_error, self_functions,
                   origins, helpers, emitted>>
    /\ UNCHANGED <<lexvars, unitvars>>

\* line 316
ReturnTrue ==
    /\ pc = "emit"
    /\ cursor.function > Len(self_functions)
    /\ Return("True")
    /\ UNCHANGED <<mcversion, source_path, disk, self_error, self_functions,
                   origins, cursor, helpers, emitted>>
    /\ UNCHANGED <<lexvars, unitvars>>

Next ==
    \/ RejectVersion
    \/ PrepareOutput
    \/ NotADirectory
    \/ CompileFile
    \/ NextDirectory
    \/ WritePack
    \/ EmitCubentFunction
    \/ EmitMCFunction
    \/ ReturnTrue

Spec == Init /\ [][Next]_vars

-----------------------------------------------------------------------------
(* A string literal on its own: the lexer reads it, compile_primary        *)
(* decodes it.                                                             *)

StringAlphabet == {"\\", "'", "\"", "a", "b"}

MaxStringLen == 3

Strings == UNION { [1..n -> StringAlphabet] : n \in 0..MaxStringLen }

Delimiters == {"'", "\""}

\* s with a backslash put before every backslash and every quote character
RECURSIVE Escaped(_)
Escaped(s) ==
    IF s = <<>> THEN <<>>
    ELSE (IF s[1] \in {"\\", "'", "\""} THEN <<"\\", s[1]>> ELSE <<s[1]>>)
         \o Escaped(Tail(s))

Literal(s, delimiter) == <<delimiter>> \o Escaped(s) \o <<delimiter>>

TheLiteral == Literal(applied.arguments[1], applied.arguments[2])

LiteralInit ==
    /\ LexIdle
    /\ PipeIdle
    /\ applied \in { [function |-> "compile_primary", arguments |-> <<s, q>>] :
                      s \in Strings, q \in Delimiters }
    /\ outcome = NotCalled

\* the lexer's next() calls on the literal, up to the end of the text
LexLiteral ==
    /\ outcome.st = "not called"
    /\ outcome' = [st |-> "lexed", lexemes |-> Stream(TheLiteral, LexerInit)]
    /\ UNCHANGED <<applied, lexvars, pipevars>>

\* compile_primary on a lexer that stands at the literal
ParseLiteral ==
    /\ outcome.st = "lexed"
    /\ outcome' = [st |-> "parsed", lexemes |-> outcome.lexemes,
                   primary |-> self_compile_primary(Lexer(TheLiteral), 1, <<>>,
                                                    <<>>, <<>>, <<>>)]
    /\ UNCHANGED <<applied, lexvars, pipevars>>

LiteralNext == LexLiteral \/ ParseLiteral

SpecString == LiteralInit /\ [][LiteralNext]_vars

-----------------------------------------------------------------------------
(* write_commands on its own, called with a scope chain that earlier       *)
(* declarations and enclosing if-blocks have built, as                     *)
(* write_internal_function and write_cubent_function call it.              *)

ScopeNames == { <<"x">>, <<"y">> }

ScopeTypes == {"Int", "String"}

MaxScopeDepth == 2

Variable(name, type) == [name |-> name, type |-> type]

\* the frames: Scope.variables with the names in the order of declaration
Frames ==
    { <<>> }
    \cup { <<Variable(n, T)>> : n \in ScopeNames, T \in ScopeTypes }
    \cup { <<Variable(names[1], T), Variable(names[2], U)>> :
             names \in { pair \in ScopeNames \X ScopeNames :
                           pair[1] # pair[2] },
             T \in ScopeTypes, U \in ScopeTypes }

ScopeChains == UNION { [1..depth -> Frames] : depth \in 1..MaxScopeDepth }

AtStart == [offset |-> 0, line |-> 0, column |-> 0]

LiteralOf(type) ==
    IF type = "Int" THEN Load(AtStart, "Int", <<"1">>)
    ELSE Load(AtStart, "String", <<"a">>)

\* var n = <literal of type>;
DeclareCommands(n, type) == << LiteralOf(type), Named(AtStart, "DECLARE_VAR", n) >>

\* n = <literal of type>;
AssignCommands(n, type) == << LiteralOf(type), Named(AtStart, "SET_VAR", n) >>

\* if (true) { block }
IfCommands(block) ==
    << Load(AtStart, "Boolean", <<"t","r","u","e">>), DoIf(AtStart, block) >>

ScopeShapes ==
    {"declare", "if declare", "if assign", "if declare assign",
     "if declare declare", "if declare then assign"}

\* the IR of the statements a shape stands for
ScopeCommands(shape, n, type, other) ==
    CASE shape = "declare" -> DeclareCommands(n, type)
      [] shape = "if declare" -> IfCommands(DeclareCommands(n, type))
      [] shape = "if assign" -> IfCommands(AssignCommands(n, type))
      [] shape = "if declare assign" ->
            IfCommands(DeclareCommands(n, type) \o AssignCommands(n, other))
      [] shape = "if declare declare" ->
            IfCommands(DeclareCommands(n, type) \o DeclareCommands(n, other))
      [] shape = "if declare then assign" ->
            IfCommands(DeclareCommands(n, type)) \o AssignCommands(n, other)

ScopeInit ==
    /\ LexIdle
    /\ PipeIdle
    /\ applied \in
          { [function |-> "write_commands",
             arguments |-> <<scope, shape, n, type, other>>] :
               scope \in ScopeChains, shape \in ScopeShapes, n \in ScopeNames,
               type \in ScopeTypes, other \in ScopeTypes }
    /\ outcome = NotCalled

\* write_commands(build_uuid, path, commands, parameters, file, directory,
\* scope)
EmitInScope ==
    /\ applied.function = "write_commands"
    /\ outcome.st = "not called"
    /\ \E w \in { write_commands(<<"x">>, MainPath, build_uuid, MainPath,
                                 ScopeCommands(applied.arguments[2],
                                               applied.arguments[3],
                                               applied.arguments[4],
                                               applied.arguments[5]),
                                 <<>>, <<>>, applied.arguments[1], 0) } :
          outcome' = w
    /\ UNCHANGED <<applied, lexvars, pipevars>>

SpecScope == ScopeInit /\ [][EmitInScope]_vars

-----------------------------------------------------------------------------
(* write_type_conversion on its own, for every pair of types a value and a *)
(* target can have.                                                        *)

ConversionTypes ==
    {"Any", "Byte", "Boolean", "Short", "Int", "Long", "Float", "Double",
     "String"}

MainStorage == function_storage(build_uuid, MainPath)

ConversionInit ==
    /\ LexIdle
    /\ PipeIdle
    /\ applied \in
          { [function |-> "write_type_conversion",
             arguments |-> <<current_type, target_type>>] :
               current_type \in ConversionTypes,
               target_type \in ConversionTypes }
    /\ outcome = NotCalled

\* write_type_conversion(current_type, target_type, function_storage, file)
ConvertType ==
    /\ applied.function = "write_type_conversion"
    /\ outcome.st = "not called"
    /\ outcome' = write_type_conversion(applied.arguments[1],
                                        applied.arguments[2], MainStorage)
    /\ UNCHANGED <<applied, lexvars, pipevars>>

SpecConversion == ConversionInit /\ [][ConvertType]_vars

-----------------------------------------------------------------------------
(* parse_imports on its own, on one import statement.                      *)

\* spellings of an identifier: the first letters that read_number treats
\* after a "." (b, s, l, f, d), another letter, a longer name
ImportNames ==
    { <<"a">>, <<"b">>, <<"s">>, <<"l">>, <<"f">>, <<"d">>, <<"x","1">> }

MaxImportParts == 3

ImportPaths == UNION { [1..n -> ImportNames] : n \in 1..MaxImportParts }

\* no alias, or the identifier after `as`
ImportAliases == { <<>>, <<"g">> }

\* import p1.p2. ... .pk [as alias];
ImportText(path, alias) ==
    kw_import \o <<" ">> \o JoinDots(path)
        \o (IF alias = <<>> THEN <<>> ELSE <<" ">> \o kw_as \o <<" ">> \o alias)
        \o <<";">>

ImportInit ==
    /\ LexIdle
    /\ PipeIdle
    /\ applied \in { [function |-> "parse_imports",
                      arguments |-> <<path, alias>>] :
                        path \in ImportPaths, alias \in ImportAliases }
    /\ outcome = NotCalled

\* parse_imports(lexer, context, imports) with an empty import map
ParseImports ==
    /\ applied.function = "parse_imports"
    /\ outcome.st = "not called"
    /\ outcome' = self_parse_imports(Lexer(ImportText(applied.arguments[1],
                                                       applied.arguments[2])),
                                     1, <<>>)
    /\ UNCHANGED <<applied, lexvars, pipevars>>

SpecImports == ImportInit /\ [][ParseImports]_vars

-----------------------------------------------------------------------------
(* compile() on source trees whose functions call each other across files  *)
(* and directories.                                                        *)

\* import e.g;namespace c{function f():Void{
CallerOpen ==
    <<"i","m","p","o","r","t"," ","e",".","g",";","n","a","m","e","s","p",
      "a","c","e"," ","c","{","f","u","n","c","t","i","o","n"," ","f","(",
      ")",":","V","o","i","d","{">>

\* g();
StCallG ==
    <<"g","(",")",";">>

\* import e.g;namespace c{function f():Void{g();}}
FileCaller == CallerOpen \o StCallG \o MainClose

\* the caller and, after it in the same file, the function it calls
FileCallerFirst == FileCaller \o FileG

\* namespace e{mcfunction "m:r" g():Void;}
FileMcG ==
    <<"n","a","m","e","s","p","a","c","e"," ","e","{","m","c","f","u","n",
      "c","t","i","o","n"," ","\"","m",":","r","\""," ","g","(",")",":","V",
      "o","i","d",";","}">>

PhaseFiles == { FileCaller, FileCallerFirst, FileG, FileMcG, FileF }

MaxFiles == 2

\* one directory with up to MaxFiles files in any order of the glob, two
\* directories with a file each, and a path that is no directory
PhaseTrees ==
    { <<Directory(files)>> :
        files \in UNION { [1..n -> PhaseFiles] : n \in 0..MaxFiles } }
    \cup { <<Directory(<<a>>), Directory(<<b>>)>> :
             a \in PhaseFiles, b \in PhaseFiles }
    \cup { <<NotDirectory>>, <<Directory(<<FileG>>), NotDirectory>> }

PhasesInit ==
    /\ LexIdle
    /\ UnitIdle
    /\ pc = "start"
    /\ returned = "None"
    /\ self_error = NoError
    /\ self_functions = <<>>
    /\ origins = <<>>
    /\ cursor = [directory |-> 1, file |-> 1, function |-> 1]
    /\ helpers = 0
    /\ emitted = <<>>
    /\ mcversion \in { MINIMAL_VERSION,
                       MinecraftVersion(MINIMAL_MAJOR, MINIMAL_MINOR - 1,
                                        MINIMAL_PHASE) }
    /\ source_path \in PhaseTrees
    /\ disk \in {NoDisk, StaleDisk}

SpecPhases == PhasesInit /\ [][Next]_vars

-----------------------------------------------------------------------------
(* An expression on its own: a chain of primaries with an operator between *)
(* each two, parsed by compile_expression.                                 *)

ChainOperators == { <<"+">>, <<"-">>, <<"*">>, <<"=","=">> }

\* an Int literal and a variable
ChainPrimaries == { <<"1">>, <<"x">> }

MaxChain == 3

\* the operators of a chain, each with its right-hand primary
ChainRests ==
    UNION { [1..n -> ChainOperators \X ChainPrimaries] : n \in 1..MaxChain }

RECURSIVE ChainRestText(_)
ChainRestText(rest) ==
    IF rest = <<>> THEN <<>>
    ELSE rest[1][1] \o rest[1][2] \o ChainRestText(Tail(rest))

\* p0 op1 p1 ... opn pn;
ChainText(first, rest) == first \o ChainRestText(rest) \o <<";">>

ChainInit ==
    /\ LexIdle
    /\ PipeIdle
    /\ applied \in { [function |-> "compile_expression",
                      arguments |-> <<first, rest>>] :
                       first \in ChainPrimaries, rest \in ChainRests }
    /\ outcome = NotCalled

\* compile_expression on a lexer that stands at the chain, with no import and
\* no parameter
ParseChain ==
    /\ applied.function = "compile_expression"
    /\ outcome.st = "not called"
    /\ outcome' = self_compile_expression(
                      Lexer(ChainText(applied.arguments[1],
                                      applied.arguments[2])),
                      1, MainPath, <<>>, <<>>, <<>>)
    /\ UNCHANGED <<applied, lexvars, pipevars>>

SpecChain == ChainInit /\ [][ParseChain]_vars

-----------------------------------------------------------------------------
(* write_commands on its own, on sequences of commands that push and pop,  *)
(* with the lines it writes read back as operations on the runtime Stack.  *)

\* the table that CalleesText declares: c.b without parameter, e.s with one
StackFunctions == compile_file(CalleesText, <<>>).functions

\* the block of `if(true){b(1);}`
ExtraArgumentBlock ==
    << Load(AtStart, "Int", <<"1">>),
       Call(AtStart, << <<"c">>, <<"b">> >>, 1) >>

StackCommands ==
    { Load(AtStart, "Int", <<"1">>),
      Load(AtStart, "Boolean", <<"t","r","u","e">>),
      Named(AtStart, "GET_VAR", <<"x">>),
      Named(AtStart, "SET_VAR", <<"x">>),
      GetArg(AtStart, 0),
      Command(AtStart, "ADD"),
      Command(AtStart, "EQ"),
      DoIf(AtStart, <<>>),
      DoIf(AtStart, ExtraArgumentBlock),
      Call(AtStart, << <<"c">>, <<"b">> >>, 0),
      Call(AtStart, << <<"e">>, <<"s">> >>, 1) }

MaxCommands == 3

StackInit ==
    /\ LexIdle
    /\ PipeIdle
    /\ applied \in
          { [function |-> "write_commands on a stack", arguments |-> commands] :
               commands \in UNION { [1..n -> StackCommands] :
                                      n \in 1..MaxCommands } }
    /\ outcome = NotCalled

\* write_commands for a function d.f with the parameter p: Int and the
\* variable x: Int in its scope
EmitOnStack ==
    /\ applied.function = "write_commands on a stack"
    /\ outcome.st = "not called"
    /\ \E w \in { write_commands(<<"x">>, MainPath, build_uuid, MainPath,
                                 applied.arguments,
                                 << Variable(<<"p">>, "Int") >>,
                                 StackFunctions,
                                 << << Variable(<<"x">>, "Int") >> >>, 0) } :
          outcome' = w
    /\ UNCHANGED <<applied, lexvars, pipevars>>

SpecStack == StackInit /\ [][EmitOnStack]_vars

-----------------------------------------------------------------------------
(* A call with several arguments, from its text to the lines that set up   *)
(* the Arguments list of the callee.                                       *)

\* the argument expressions: literals, with their type and the text that
\* LOAD writes for them
ArgumentLiterals ==
    { [text |-> <<"1">>, type |-> "Int", raw |-> "1"],
      [text |-> <<"2">>, type |-> "Int", raw |-> "2"],
      [text |-> <<"'","a","'">>, type |-> "String", raw |-> "'a'"] }

ParameterTypes == {"Int", "String"}

TypeText(type) ==
    IF type = "Int" THEN <<"I","n","t">> ELSE <<"S","t","r","i","n","g">>

MaxArguments == 3

\* the calls: n >= 2 parameter types and as many argument expressions
Calls ==
    UNION { [1..n -> ParameterTypes] \X [1..n -> ArgumentLiterals] :
              n \in 2..MaxArguments }

\* parts joined with commas
RECURSIVE JoinCommas(_)
JoinCommas(parts) ==
    IF parts = <<>> THEN <<>>
    ELSE IF Len(parts) = 1 THEN parts[1]
    ELSE parts[1] \o <<",">> \o JoinCommas(Tail(parts))

\* import e.t;namespace e{function t(p1:T1,...,pn:Tn):Void{}}
\* namespace d{function f():Void{t(e1,...,en);}}
CallText(parameter_types, arguments) ==
    <<"i","m","p","o","r","t"," ","e",".","t",";","n","a","m","e","s","p",
      "a","c","e"," ","e","{","f","u","n","c","t","i","o","n"," ","t","(">>
    \o JoinCommas([i \in DOMAIN parameter_types |->
                      <<"p">> \o NatStr(i) \o <<":">> \o TypeText(parameter_types[i])])
    \o <<")",":","V","o","i","d","{","}","}">>
    \o MainOpen
    \o <<"t","(">>
    \o JoinCommas([i \in DOMAIN arguments |-> arguments[i].text])
    \o <<")",";">>
    \o MainClose

CallInit ==
    /\ LexIdle
    /\ PipeIdle
    /\ applied \in { [function |-> "call", arguments |-> call_] :
                       call_ \in Calls }
    /\ outcome = NotCalled

\* compile_file on the text, then write_commands on the function d.f
EmitCallText ==
    /\ applied.function = "call"
    /\ outcome.st = "not called"
    /\ \E t \in { CallText(applied.arguments[1], applied.arguments[2]) } :
       \E r \in { compile_file(t, <<>>) } :
          IF r.st # "ok" THEN outcome' = [st |-> "not parsed"]
          ELSE \E i \in { j \in DOMAIN r.functions :
                            r.functions[j].path = MainPath } :
               outcome' = write_commands(t, MainPath, build_uuid, MainPath,
                                         r.functions[i].commands,
                                         r.functions[i].parameters,
                                         r.functions, NewScope, 0)
    /\ UNCHANGED <<applied, lexvars, pipevars>>

SpecCall == CallInit /\ [][EmitCallText]_vars

-----------------------------------------------------------------------------
(* Properties of the parser, the emitter and compile()                     *)

\* the descriptor a record of `emitted` was written from
Emitted(e) == self_functions[e.function]

\* C1: the compile-time type stack of write_commands is empty when the
\* emission of a function starts and, whenever write_commands returns True,
\* empty again after the last command, for every body the parser accepts.
C1_TypeStackEmptyAtEntryAndExit ==
    /\ EmitState(MainPath, NewScope, <<>>, 0).stack = <<>>
    /\ \A i \in DOMAIN emitted :
           emitted[i].st = "ok" => emitted[i].stack = <<>>

BinaryOperations == {"ADD", "SUB", "MUL", "DIV", "EQ", "NEQ", "OR", "AND"}

\* the callee of a CALL: the first descriptor of the table with its path
Declared(path) == \E i \in DOMAIN self_functions : self_functions[i].path = path

Callee(path) ==
    self_functions[CHOOSE i \in DOMAIN self_functions :
                       /\ self_functions[i].path = path
                       /\ \A j \in 1..(i - 1) : self_functions[j].path # path]

\* what a command adds to the depth counter
Delta(command) ==
    IF command.operation \in {"LOAD", "GET_VAR", "GET_PROP", "GET_ARG"} THEN 1
    ELSE IF command.operation \in BinaryOperations THEN -1
    ELSE IF command.operation \in {"SET_VAR", "SET_PROP", "DECLARE_VAR", "DO_IF"}
    THEN -1
    ELSE IF Declared(command.path) /\ Callee(command.path).return_type # "Void"
    THEN 1 - command.n
    ELSE 0 - command.n

\* the counter after the first k commands
RECURSIVE Depth(_, _)
Depth(commands, k) ==
    IF k = 0 THEN 0 ELSE Depth(commands, k - 1) + Delta(commands[k])

RECURSIVE Balanced(_)
Balanced(commands) ==
    /\ \A k \in 1..Len(commands) : Depth(commands, k) >= 0
    /\ Depth(commands, Len(commands)) = 0
    /\ \A k \in 1..Len(commands) :
           commands[k].operation = "DO_IF" => Balanced(commands[k].block)

\* C2: once every source file is parsed, the depth counter over the IR of
\* every function stays >= 0 and ends at 0, in every nested DO_IF block too.
C2_DepthCounterBalanced ==
    pc = "emit" =>
        \A i \in DOMAIN self_functions :
            self_functions[i].class = "CubentFunction"
                => Balanced(self_functions[i].commands)

\* the operations of an IR with the values they load
Postfix(commands) ==
    [k \in DOMAIN commands |-> <<commands[k].operation, commands[k].value>>]

\* C3: `var x=a+b*c==d;` parses into LOAD a, LOAD b, LOAD c, MUL, ADD,
\* LOAD d, EQ (and the DECLARE_VAR of x): the multiplication first, the
\* equality last.
C3_PrecedenceInPostfix ==
    \A a \in Primaries, b \in Primaries, c \in Primaries, d \in Primaries :
        \A i \in DOMAIN self_functions :
            /\ source_path = OneFile(Program(VarX(Precedence(a, b, c, d))))
            /\ self_functions[i].path = MainPath
            => Postfix(self_functions[i].commands) =
                   << <<"LOAD", a>>, <<"LOAD", b>>, <<"LOAD", c>>,
                      <<"MUL", <<>>>>, <<"ADD", <<>>>>, <<"LOAD", d>>,
                      <<"EQ", <<>>>>, <<"DECLARE_VAR", <<>>>> >>

\* lines holds the lines of part, one after the other
Holds(lines, part) ==
    \E k \in 0..(Len(lines) - Len(part)) :
        SubSeq(lines, k + 1, k + Len(part)) = part

\* C4: the file of a function holds, for every `var n = expr;` of its body,
\* the store sequence into Variables.n; the file for `var x=1+2;` is the
\* three lines of the prologue, two pushes, the seven lines of the ADD
\* sequence and the store sequence into Variables.x.
C4_VarStoresInitialiser ==
    \A i \in DOMAIN emitted :
        LET storage == function_storage(build_uuid, emitted[i].path)
            commands == Emitted(emitted[i]).commands
            lines == emitted[i].lines
        IN  emitted[i].st = "ok" =>
                /\ \A k \in DOMAIN commands :
                       commands[k].operation = "DECLARE_VAR"
                           => Holds(lines, StoreLines(storage, commands[k].name))
                /\ (/\ source_path = OneFile(Program(StVarAdd))
                    /\ emitted[i].path = MainPath)
                       => /\ Len(lines) = 14
                          /\ SubSeq(lines, 1, 3) = Prologue(storage)
                          /\ SubSeq(lines, 13, 14) = StoreLines(storage, <<"x">>)

\* C5: when compile() returned False for an error in a source file or in a
\* function, the output directory holds no file.  (pack.mcmeta, pack.png and
\* the .mcfunction files are the only files compile() writes; the version
\* gate, which returns before the directory is wiped, is C7's.)
C5_NoOutputWhenFalse ==
    returned = "False" /\ self_error # MinimalVersionError
        => DOMAIN disk.files = {}

\* C6: the function table holds at most one descriptor for a qualified path.
C6_OneDescriptorPerPath ==
    \A i \in DOMAIN self_functions, j \in DOMAIN self_functions :
        self_functions[i].path = self_functions[j].path => i = j

\* the usual order of versions
Below(version, other) ==
    \/ version.major < other.major
    \/ /\ version.major = other.major
       /\ \/ version.minor < other.minor
          \/ version.minor = other.minor /\ version.phase < other.phase

\* C7: the first step of compile() fails with the minimal-version error
\* exactly for the versions below MINIMAL_VERSION in the usual order, and
\* then leaves the output directory as it was.
C7_GateIsVersionOrder ==
    [][pc = "start" =>
         /\ (returned' = "False" /\ self_error' = MinimalVersionError)
                <=> Below(mcversion, MINIMAL_VERSION)
         /\ Below(mcversion, MINIMAL_VERSION) => disk' = disk]_vars

-----------------------------------------------------------------------------
(* Properties of the lexer                                                 *)

IsEOF(l) == l.kind = "lexeme" /\ l.type = "EOF"

SameLexeme(a, b) ==
    /\ a.kind = "lexeme" /\ b.kind = "lexeme"
    /\ a.type = b.type /\ a.body = b.body /\ a.position = b.position

\* C8: lookahead() is an idempotent peek: it leaves offset, line and column
\* as they were, a lookahead() that follows a lookahead() returns the same
\* lexeme, and so does the next() that follows a lookahead().
C8_LookaheadIsIdempotentPeek ==
    /\ call = "lookahead" => lx = before
    /\ (prevCall = "lookahead" /\ call \in {"lookahead", "next"}
            /\ prevResult.kind = "lexeme")
        => SameLexeme(result, prevResult)

\* C9: a next() call that does not return EOF moves the offset forward; EOF
\* is among the first len(text)+1 lexemes; once next() has returned EOF,
\* every later next() or lookahead() returns EOF and keeps the offset.
C9_StreamFiniteEofAbsorbing ==
    /\ (call = "next" /\ ~IsEOF(result)) => lx.offset > before.offset
    /\ Len(nexts) >= Len(text) + 1
        => \E i \in 1..(Len(text) + 1) : IsEOF(nexts[i])
    /\ \A i \in 1..Len(nexts) :
          (IsEOF(nexts[i]) /\ (i < Len(nexts) \/ call = "lookahead"))
              => /\ IsEOF(result)
                 /\ lx.offset = before.offset
                 /\ \A j \in i..Len(nexts) : IsEOF(nexts[j])

\* a text with a lexeme before its end, read to EOF and then read again
C9_Witness ==
    /\ call = "next"
    /\ Len(nexts) >= 3
    /\ ~IsEOF(nexts[1])
    /\ IsEOF(nexts[Len(nexts) - 1])
    /\ IsEOF(nexts[Len(nexts)])
    /\ Len(text) > lx.offset

\* the lexemes of str(n): one Int lexeme with body str(n), then EOF
LexesAsOneInt(n) ==
    text = PyStr(n) =>
        /\ Len(nexts) >= 1 =>
              nexts[1] = Lexeme("INT", Position(LexerInit), PyStr(n))
        /\ Len(nexts) >= 2 => IsEOF(nexts[2])

\* an unsuffixed digit string above 2147483647: an untyped lexeme that keeps
\* the digits
OverflowIsUntyped ==
    (text \in OverflowTexts /\ Len(nexts) >= 1)
        => nexts[1] = Lexeme("None", Position(LexerInit), text)

\* C10 as stated: every integer of the signed 32-bit range, written in
\* decimal, lexes to exactly one Int lexeme with that text as body; digit
\* strings above 2147483647 give an untyped lexeme.
C10_EveryInt32LexesAsInt ==
    /\ \A n \in IntInputs : LexesAsOneInt(n)
    /\ OverflowIsUntyped

\* C10, amended: the same for the integers 0 <= n <= 2147483647 (the lexer
\* has no sign: the text of a negative integer starts with a "-" lexeme).
C10_NonNegativeIntLexesAsInt ==
    /\ \A n \in IntInputs : n >= 0 => LexesAsOneInt(n)
    /\ OverflowIsUntyped

\* the largest Int literal, lexed to its end
C10_Witness ==
    /\ text = PyStr(2147483647)
    /\ Len(nexts) = 2
    /\ nexts[1].type = "INT" /\ nexts[1].body = text
    /\ IsEOF(nexts[2])

-----------------------------------------------------------------------------
(* Properties of string literals                                           *)

\* C11: for every string s over backslash, both quote characters and an
\* ordinary character, and either delimiter q, the literal q esc(s) q lexes
\* to exactly one STRING lexeme whose body is the whole literal, followed by
\* the end of the text, and compile_primary decodes it to LOAD(String, s).
C11_StringLiteralRoundTrip ==
    outcome.st = "parsed" =>
        /\ Len(outcome.lexemes) = 2
        /\ outcome.lexemes[1].kind = "lexeme"
        /\ outcome.lexemes[1].type = "STRING"
        /\ outcome.lexemes[1].body = TheLiteral
        /\ IsEOF(outcome.lexemes[2])
        /\ outcome.primary.st = "ok"
        /\ outcome.primary.commands =
               << Load(outcome.lexemes[1].position, "String",
                       applied.arguments[1]) >>

\* the literal 'a\'b' has been lexed and decoded
C11_Witness ==
    /\ outcome.st = "parsed"
    /\ applied.arguments = << <<"a", "'", "b">>, "'" >>
    /\ TheLiteral = <<"'", "a", "\\", "'", "b", "'">>
    /\ outcome.primary.commands[1].value = <<"a", "'", "b">>

-----------------------------------------------------------------------------
(* More properties of the parser, the emitter and compile()                *)

\* Compiler.operators, lines 247-252: the operation of each operator text
OperationOf(operator) ==
    CASE operator = <<"|","|">> -> "OR"
      [] operator = <<"&","&">> -> "AND"
      [] operator = <<"=","=">> -> "EQ"
      [] operator = <<"!","=">> -> "NEQ"
      [] operator = <<"+">> -> "ADD"
      [] operator = <<"-">> -> "SUB"
      [] operator = <<"*">> -> "MUL"
      [] operator = <<"/">> -> "DIV"

\* C12: each of the eight binary operators + - * / == != || && is recognised
\* between two primaries: the lexer delivers the operator of `1 op 2` as one
\* lexeme whose body is the operator text, and `var x=1 op 2;` parses into
\* LOAD 1, LOAD 2, the operator's operation (and the DECLARE_VAR of x).
C12_EightBinaryOperators ==
    \A operator \in OperatorTexts :
        /\ source_path = OneFile(Program(VarX(Binary(operator))))
        /\ pc = "done"
        /\ self_error # MinimalVersionError
        => /\ Stream(Binary(operator), LexerInit)[2].kind = "lexeme"
           /\ Stream(Binary(operator), LexerInit)[2].body = operator
           /\ \E i \in DOMAIN self_functions :
                /\ self_functions[i].path = MainPath
                /\ Postfix(self_functions[i].commands) =
                       << <<"LOAD", <<"1">> >>, <<"LOAD", <<"2">> >>,
                          <<OperationOf(operator), <<>> >>,
                          <<"DECLARE_VAR", <<>> >> >>

\* the frames of a chain that declare a name, and the type the innermost of
\* them gives it ("None" when no frame declares it)
DeclaringFrames(scope, n) == { k \in 1..Len(scope) : InFrame(scope[k], n) }

TypeIn(frame, n) == frame[CHOOSE i \in 1..Len(frame) : frame[i].name = n].type

VisibleType(scope, n) ==
    IF DeclaringFrames(scope, n) = {} THEN "None"
    ELSE TypeIn(scope[CHOOSE k \in DeclaringFrames(scope, n) :
                         \A j \in DeclaringFrames(scope, n) : j <= k], n)

ScopeBefore == applied.arguments[1]

ScopeShape == applied.arguments[2]

ScopeName == applied.arguments[3]

\* C13: a declaration succeeds exactly when its name is absent from the
\* innermost frame, so an if-block may redeclare a name of an enclosing frame
\* (the new variable is the one its own statements see) while a second
\* declaration in the same frame fails; inside the helper of an if-block a
\* variable of an enclosing frame is visible with its type; and after the
\* DO_IF the enclosing scope holds the variables and types it held before,
\* with nothing of what the block declared.
C13_IfBlockScoping ==
    applied.function = "write_commands" /\ outcome.st # "not called" =>
        /\ outcome.st \in {"ok", "fail"}
        /\ outcome.st = "ok" <=>
             CASE ScopeShape = "declare" ->
                     ~InFrame(ScopeBefore[Len(ScopeBefore)], ScopeName)
               [] ScopeShape = "if declare" -> TRUE
               [] ScopeShape = "if assign" ->
                     VisibleType(ScopeBefore, ScopeName) = applied.arguments[4]
               [] ScopeShape = "if declare assign" ->
                     applied.arguments[4] = applied.arguments[5]
               [] ScopeShape = "if declare declare" -> FALSE
               [] ScopeShape = "if declare then assign" ->
                     VisibleType(ScopeBefore, ScopeName) = applied.arguments[5]
        /\ outcome.st = "ok" =>
             outcome.scope =
                IF ScopeShape = "declare"
                THEN [ScopeBefore EXCEPT ![Len(ScopeBefore)] =
                         Append(@, Variable(ScopeName, applied.arguments[4]))]
                ELSE ScopeBefore

\* an if-block has declared a String x although the enclosing frame holds an
\* Int x, and the enclosing scope is as it was
C13_Witness ==
    /\ applied.function = "write_commands"
    /\ outcome.st = "ok"
    /\ ScopeShape = "if declare"
    /\ ScopeName = <<"x">>
    /\ applied.arguments[4] = "String"
    /\ ScopeBefore = << <<Variable(<<"x">>, "Int")>> >>
    /\ outcome.scope = ScopeBefore
    /\ Len(outcome.files) = 1

NumericTypes == {"Byte", "Short", "Int", "Long", "Float", "Double"}

\* the rule of the conversion table that applies to a pair, the first of the
\* four in the order they are stated
ConversionRule(source, target) ==
    IF source = target \/ source = "Any" \/ target = "Any" THEN "none"
    ELSE IF source \in NumericTypes \cup {"Boolean"} /\ target \in NumericTypes
    THEN "store"
    ELSE IF source \in NumericTypes \cup {"Boolean"} /\ target = "Boolean"
    THEN "normalise"
    ELSE "fail"

\* C14: write_type_conversion implements the conversion table for every
\* ordered pair of Any, Byte, Boolean, Short, Int, Long, Float, Double and
\* String: no line when the types are identical or either is Any; one
\* store-result line of the target's kind from a Boolean or numeric source to
\* a numeric target; the three lines that read the value into score 1, set
\* true at 1 or more and false at 0 or less from such a source to Boolean;
\* failure with no line in every other case.
C14_ConversionTable ==
    applied.function = "write_type_conversion" /\ outcome.st # "not called" =>
        LET rule == ConversionRule(applied.arguments[1], applied.arguments[2])
        IN  /\ outcome.st = (IF rule = "fail" THEN "no" ELSE "ok")
            /\ rule \in {"none", "fail"} => outcome.lines = <<>>
            /\ rule = "store" =>
                 outcome.lines =
                    << "execute store result storage " \o MainStorage
                          \o " Stack[-1].Value "
                          \o LowerType(applied.arguments[2])
                          \o " 1.0 run data get storage " \o MainStorage
                          \o " Stack[-1].Value" >>
            /\ rule = "normalise" =>
                 /\ Len(outcome.lines) = 3
                 /\ outcome.lines[1] =
                       "execute store result score 1 " \o CUBENT_SCOREBOARD
                          \o " run data get storage " \o MainStorage
                          \o " Stack[-1].Value"
                 /\ outcome.lines[2] =
                       "execute if score 1 " \o CUBENT_SCOREBOARD
                          \o " matches 1.. run data modify storage "
                          \o MainStorage \o " Stack[-1].Value set value true"
                 /\ outcome.lines[3] =
                       "execute if score 1 " \o CUBENT_SCOREBOARD
                          \o " matches ..0 run data modify storage "
                          \o MainStorage \o " Stack[-1].Value set value false"

\* an Int has been normalised to Boolean
C14_Witness ==
    /\ applied = [function |-> "write_type_conversion",
                  arguments |-> <<"Int", "Boolean">>]
    /\ outcome.st = "ok"
    /\ Len(outcome.lines) = 3

\* C15: a CALL of a callee with k parameters and return type R takes k
\* entries off the type stack and then pushes R unless R is Void, so the
\* call of the Int function s as the initialiser of `var y=s(1);` leaves
\* the Int that DECLARE_VAR consumes: the function is emitted, with an empty
\* type stack after the declaration.
C15_CallLeavesReturnType ==
    \A i \in DOMAIN emitted :
        /\ source_path = OneFile(Program(StVarCall))
        /\ emitted[i].path = MainPath
        => /\ emitted[i].st = "ok"
           /\ emitted[i].stack = <<>>

\* the offset of the x of `x='a';` in the program `var x=1;x='a';`
AssignmentAt == Len(ImportsText \o CalleesText \o MainOpen \o StVar)

\* C16: assigning a value of another type to a declared variable, as the
\* String of `x='a';` to the Int x of `var x=1;`, makes compile() return
\* False with an error whose position is that of the = of the assignment
\* and whose message names the type of the variable and the type of the
\* value.
C16_MismatchErrorAtEquals ==
    /\ source_path = OneFile(Program(StVar \o StSetString))
    /\ pc = "done"
    => /\ returned = "False"
       /\ self_error.kind = "CompilationError"
       /\ self_error.message = "Can't put object to variable"
       /\ {self_error.args[1], self_error.args[2]} = {"Int", "String"}
       /\ Program(StVar \o StSetString)[self_error.position.offset + 1] = "="
       /\ self_error.position.offset = AssignmentAt + 1

\* the positions of the commands of an IR, those of the if-blocks included
RECURSIVE CommandPositions(_)
CommandPositions(commands) ==
    UNION { {commands[k].position} \cup CommandPositions(commands[k].block) :
              k \in DOMAIN commands }

\* C17: whenever write_commands returns False for a function (a duplicate
\* declaration, an undeclared variable, a type mismatch on assignment, a
\* non-numeric ADD operand, an undefined function, a non-convertible
\* argument or an if-condition that cannot become a Boolean), Compiler.error
\* holds a CompilationError whose position is that of a command of the
\* function's IR.
C17_EmitterFailureSetsError ==
    \A i \in DOMAIN emitted :
        emitted[i].st = "fail" =>
            /\ self_error.kind = "CompilationError"
            /\ self_error.position \in
                  CommandPositions(Emitted(emitted[i]).commands)

\* C18: every text that leaves the grammar (here a file cut short anywhere:
\* inside the import, the namespace header, a function or mcfunction header
\* with its name, parameter list and return type, or a statement) ends the
\* parse with compile_file returning False and Compiler.error a
\* CompilationError that carries a position and a message; nothing else,
\* such as an exception raised while the error is built, comes out.
C18_DeviationIsCompilationError ==
    \A n \in Deviating :
        source_path = OneFile(Truncated(n)) /\ pc = "done"
        => /\ returned = "False"
           /\ self_error.kind = "CompilationError"
           /\ self_error.position.offset \in 0..n
           /\ self_error.message # ""

\* the paths of the table, in the order of registration
RegisteredPaths == [i \in DOMAIN self_functions |-> self_functions[i].path]

\* C19: a namespace header of k >= 1 identifiers parses, and every function
\* or mcfunction declared inside is registered under the namespace parts in
\* source order, each once, followed by its own name: c.b, e.s and d.f for
\* the headers of one part, a.b.f for `namespace a.b{`, a.b.l.f for
\* `namespace a.b.l{`.
C19_NamespacePathInOrder ==
    pc = "done" =>
        /\ source_path = OneFile(Program(<<>>)) =>
              RegisteredPaths = << << <<"c">>, <<"b">> >>,
                                   << <<"e">>, <<"s">> >>, MainPath >>
        /\ source_path = OneFile(FileDotted) =>
              RegisteredPaths = << << <<"a">>, <<"b">>, <<"f">> >> >>
        /\ source_path = OneFile(FileDottedTwice) =>
              RegisteredPaths = << << <<"a">>, <<"b">>, <<"l">>, <<"f">> >> >>

\* the files whose function f reads a parameter in `var x=<parameter>;`,
\* with the 0-based index of that parameter and its declared type
ParameterCases ==
    { <<FileParameter, "0", "Int">>, <<FileParameterLong, "0", "Int">>,
      <<FileParameterSecond, "1", "String">> }

\* C20: an identifier primary that names the i-th parameter (from 0, in
\* source order) of the enclosing function parses into GET_ARG(i), and the
\* emitter handles GET_ARG(i) by pushing the parameter's declared type and
\* writing the append from cubent:storage Arguments[i].
C20_ParameterBecomesGetArg ==
    \A case \in ParameterCases :
        source_path = OneFile(case[1]) /\ pc = "done"
        => /\ Len(self_functions) = 1
           /\ self_functions[1].commands[1].operation = "GET_ARG"
           /\ PyStr(self_functions[1].commands[1].n) = <<case[2]>>
           /\ Len(emitted) = 1
           /\ emitted[1].st = "ok"
           /\ \E k \in DOMAIN emitted[1].lines :
                 emitted[1].lines[k] =
                    "data modify storage " \o MainStorage
                       \o " Stack append from storage " \o CUBENT_STORAGE
                       \o " Arguments[" \o case[2] \o "]"

\* data/<dotted namespace>/functions/<simple name>.mcfunction
FunctionFile(function) ==
    <<"data",
      Str(JoinDots(SubSeq(function.path, 1, Len(function.path) - 1))),
      "functions",
      Str(function.path[Len(function.path)]) \o ".mcfunction">>

\* sources whose functions have well-typed bodies: two functions of one
\* namespace in one file, two files with a namespace each, and the program
\* with the namespaces c, e and d
WellTypedSources ==
    { OneFile(FileSameNamespace), <<Directory(<<FileF, FileG>>)>>,
      OneFile(Program(<<>>)) }

\* C21: when the sources declare functions with well-typed bodies, spread in
\* any way over namespaces (two in one namespace included), the emission
\* completes, compile() returns True and the output holds the file
\* data/<dotted namespace>/functions/<simple name>.mcfunction of each.
C21_OneFilePerFunction ==
    source_path \in WellTypedSources /\ pc = "done"
    => /\ returned = "True"
       /\ \A i \in DOMAIN self_functions :
             self_functions[i].class = "CubentFunction"
             => FunctionFile(self_functions[i]) \in DOMAIN disk.files

\* C22: every import statement `import ident { . ident } [ as ident ] ;` is
\* accepted, whatever the number of path components (one or more) and the
\* spelling of the identifiers, and adds to the import map the entry from
\* the alias (the identifier after `as`, else the last component) to the
\* path components in order.
C22_ImportAccepted ==
    applied.function = "parse_imports" /\ outcome.st # "not called" =>
        /\ outcome.st = "ok"
        /\ DOMAIN outcome.imports =
              { IF applied.arguments[2] = <<>>
                THEN applied.arguments[1][Len(applied.arguments[1])]
                ELSE applied.arguments[2] }
        /\ \A alias \in DOMAIN outcome.imports :
              outcome.imports[alias] = applied.arguments[1]

\* the files of every source directory, in the order compile() reads them
SourceFiles ==
    Concat([d \in DOMAIN source_path |-> source_path[d].files])

\* the function table after compile_file on each of the files in turn
RECURSIVE ParseAll(_, _)
ParseAll(files, functions) ==
    IF files = <<>> THEN functions
    ELSE LET r == compile_file(files[1], functions)
         IN  IF r.st = "ok" THEN ParseAll(Tail(files), r.functions)
             ELSE r.functions

\* the position of the g of `g();` in FileCaller
CallAt ==
    [offset |-> Len(CallerOpen), line |-> 0, column |-> Len(CallerOpen)]

\* the outcome of emitting a function whose body is one CALL: the line that
\* runs the target when the table has its path, the error otherwise
CallResolved(e) ==
    LET command == Emitted(e).commands[1]
        targets == { j \in DOMAIN self_functions :
                       self_functions[j].path = command.path }
        target == self_functions[CHOOSE j \in targets :
                                    \A k \in targets : j <= k]
    IN  IF targets # {}
        THEN /\ e.st = "ok"
             /\ e.lines[Len(e.lines)] =
                   IF target.class = "CubentFunction" THEN "function e:g"
                   ELSE "function m:r"
        ELSE /\ e.st = "fail"
             /\ pc = "done" /\ returned = "False"
             /\ self_error.kind = "CompilationError"
             /\ self_error.message = "Undefined function"
             /\ self_error.args = << <<"e",".","g">> >>
             /\ self_error.position = CallAt

PhasesInOrder ==
    /\ pc \in {"start", "parse"} => emitted = <<>>
    /\ pc = "parse" => DOMAIN disk.files = {}
    /\ pc = "emit" \/ emitted # <<>> =>
          /\ cursor.directory > Len(source_path)
          /\ self_functions = ParseAll(SourceFiles, <<>>)
    /\ \A i \in DOMAIN emitted :
          /\ Len(Emitted(emitted[i]).commands) = 1
          /\ Emitted(emitted[i]).commands[1].operation = "CALL"
          => /\ Emitted(emitted[i]).commands[1].position = CallAt
             /\ CallResolved(emitted[i])

\* C23: the phases of compile() come in order.  No function file is written
\* before every file of every source directory is parsed and the function
\* table holds every declaration; while functions are emitted the table does
\* not change.  So a CALL finds its target wherever it is declared, later in
\* the same file or in another file or directory, and a CALL of a path that
\* no file declares ends compile() with the error 'Undefined function' at
\* the position of the CALL.
C23_ParseBeforeEmit ==
    /\ []PhasesInOrder
    /\ [][pc = "emit" \/ emitted # <<>> => self_functions' = self_functions]_vars

\* the caller is in one directory, its target in the next, and the call is
\* emitted as the line that runs the target
C23_Witness ==
    /\ source_path = <<Directory(<<FileCaller>>), Directory(<<FileG>>)>>
    /\ pc = "done" /\ returned = "True"
    /\ Len(emitted) = 2
    /\ emitted[1].lines[Len(emitted[1].lines)] = "function e:g"

\* what a command is: its operation, what it loads or names, and the offset
\* of its position
Shape(command) ==
    <<command.operation, command.value, command.name, command.position.offset>>

\* the command of a primary that stands at an offset
PrimaryShape(primary, offset) ==
    IF primary = <<"x">> THEN <<"GET_VAR", <<>>, primary, offset>>
    ELSE <<"LOAD", primary, <<>>, offset>>

\* p1, OP1, p2, OP2, ..., each primary followed at once by the operation of
\* the operator before it; offset is where the rest of the chain starts
RECURSIVE RestShapes(_, _)
RestShapes(rest, offset) ==
    IF rest = <<>> THEN <<>>
    ELSE << PrimaryShape(rest[1][2], offset + Len(rest[1][1])),
            <<OperationOf(rest[1][1]), <<>>, <<>>, offset>> >>
         \o RestShapes(Tail(rest),
                       offset + Len(rest[1][1]) + Len(rest[1][2]))

\* C24: every chain p0 op1 p1 ... opn pn over the operators + - * == is
\* accepted, and its commands are p0, p1, OP1, p2, OP2, ..., pn, OPn: each
\* operation right after its right-hand primary, in the order of the text,
\* whatever the precedence levels of the operators; the parse stops at the
\* `;` after the chain.
C24_ChainLeftToRight ==
    applied.function = "compile_expression" /\ outcome.st # "not called" =>
        /\ outcome.st = "ok"
        /\ [k \in DOMAIN outcome.commands |-> Shape(outcome.commands[k])] =
              << PrimaryShape(applied.arguments[1], 0) >>
              \o RestShapes(applied.arguments[2], Len(applied.arguments[1]))
        /\ lexer_lookahead(Lexer(ChainText(applied.arguments[1],
                                           applied.arguments[2])),
                           outcome.lx).lexeme.body = <<";">>

\* 1+x*1==x is parsed: ADD comes before the MUL that binds tighter
C24_Witness ==
    /\ applied.function = "compile_expression"
    /\ applied.arguments = << <<"1">>, << << <<"+">>, <<"x">> >>,
                                          << <<"*">>, <<"1">> >>,
                                          << <<"=","=">>, <<"x">> >> >> >>
    /\ outcome.st = "ok"
    /\ Len(outcome.commands) = 7
    /\ outcome.commands[3].operation = "ADD"
    /\ outcome.commands[5].operation = "MUL"

\* the lines that add one entry to the Stack of a storage
StackAppends(storage) ==
    { "data modify storage " \o storage \o " Stack append value {Value:1}",
      "data modify storage " \o storage \o " Stack append value {Value:true}",
      "data modify storage " \o storage \o " Stack append value {}",
      "data modify storage " \o storage \o " Stack append from storage "
          \o storage \o " Variables.x",
      "data modify storage " \o storage \o " Stack append from storage "
          \o CUBENT_STORAGE \o " Arguments[0]" }

\* the helper files that a line runs when its condition holds
HelpersRun(line, files) ==
    { k \in DOMAIN files :
        line = "execute if score 1 " \o CUBENT_SCOREBOARD
                   \o " matches 1 run function " \o build_uuid \o ":"
                   \o files[k].name }

\* the depths the Stack of a storage can have after the lines have run, from
\* the depths it can have before them: an append adds an entry, a remove
\* takes one, `set value []` empties it, and a helper runs or not
RECURSIVE RunLines(_, _, _, _)
RunLines(lines, files, storage, depths) ==
    IF lines = <<>> THEN depths
    ELSE LET line == lines[1]
             after ==
                 IF line \in StackAppends(storage)
                 THEN { d + 1 : d \in depths }
                 ELSE IF line = "data remove storage " \o storage \o " Stack[-1]"
                 THEN { IF d > 0 THEN d - 1 ELSE 0 : d \in depths }
                 ELSE IF line = "data modify storage " \o storage
                                    \o " Stack set value []"
                 THEN {0}
                 ELSE depths \cup
                      UNION { RunLines(files[k].lines, files, storage, depths) :
                                k \in HelpersRun(line, files) }
         IN  RunLines(Tail(lines), files, storage, after)

\* C25: the runtime Stack follows the type stack.  Every sequence of the
\* commands LOAD, GET_VAR, SET_VAR, GET_ARG, ADD, EQ, DO_IF and CALL whose
\* operands are on the type stack is translated (or rejected with an error),
\* and when it is translated the lines written, run from the prologue, leave
\* as many entries on the function's Stack as the type stack has.
C25_RuntimeStackFollowsTypeStack ==
    applied.function = "write_commands on a stack" =>
        /\ outcome.st = "raise" => outcome.error.kind = "IndexError"
        /\ outcome.st = "ok" =>
              RunLines(outcome.lines, outcome.files, MainStorage, {0})
                  = { Len(outcome.stack) }

\* the runtime Stack of the function and the Arguments list after the lines
\* have run: a LOAD line appends its value to the Stack, the CALL lines empty
\* Arguments, append the top of the Stack to it and remove the top
RECURSIVE RunCall(_, _, _)
RunCall(lines, stack_, arguments) ==
    IF lines = <<>> THEN [Stack |-> stack_, Arguments |-> arguments]
    ELSE LET line == lines[1]
             loaded == { a \in ArgumentLiterals :
                           line = "data modify storage " \o MainStorage
                                      \o " Stack append value {Value:"
                                      \o a.raw \o "}" }
         IN  IF loaded # {}
             THEN RunCall(Tail(lines),
                          Append(stack_, (CHOOSE a \in loaded : TRUE).raw),
                          arguments)
             ELSE IF line = "data modify storage " \o CUBENT_STORAGE
                                \o " Arguments set value []"
             THEN RunCall(Tail(lines), stack_, <<>>)
             ELSE IF line = "data modify storage " \o CUBENT_STORAGE
                                \o " Arguments append from storage "
                                \o MainStorage \o " Stack[-1]"
                     /\ stack_ # <<>>
             THEN RunCall(Tail(lines), stack_,
                          Append(arguments, stack_[Len(stack_)]))
             ELSE IF line = "data remove storage " \o MainStorage
                                \o " Stack[-1]"
                     /\ stack_ # <<>>
             THEN RunCall(Tail(lines), SubSeq(stack_, 1, Len(stack_) - 1),
                          arguments)
             ELSE RunCall(Tail(lines), stack_, arguments)

\* C26: a call t(e1, ..., en) of a function with n >= 2 parameters, each
\* argument of the type of the parameter at its place, is translated, and the
\* lines it is translated to leave the value of ei at index i-1 of the
\* Arguments list: the arguments reach the callee in the order of the call,
\* each checked against the parameter of its own place.
C26_ArgumentsInOrder ==
    /\ applied.function = "call"
    /\ outcome.st # "not called"
    /\ \A i \in DOMAIN applied.arguments[1] :
          applied.arguments[2][i].type = applied.arguments[1][i]
    => /\ outcome.st = "ok"
       /\ RunCall(outcome.lines, <<>>, <<>>).Arguments =
             [i \in DOMAIN applied.arguments[2] |-> applied.arguments[2][i].raw]

\* the type of the value a LOAD line of this model appends, "None" for any
\* other line
LoadedType(line) ==
    IF line = "data modify storage " \o MainStorage
                  \o " Stack append value {Value:1}" THEN "Int"
    ELSE IF line = "data modify storage " \o MainStorage
                       \o " Stack append value {Value:'a'}" THEN "String"
    ELSE IF line = "data modify storage " \o MainStorage
                       \o " Stack append value {Value:true}" THEN "Boolean"
    ELSE "None"

\* the types of the values that the lines of one file store into
\* Variables.n, with the types on the runtime Stack as the lines run
RECURSIVE StoredTypes(_, _, _)
StoredTypes(lines, n, runtime) ==
    IF lines = <<>> THEN {}
    ELSE LET line == lines[1]
         IN  IF LoadedType(line) # "None"
             THEN StoredTypes(Tail(lines), n, Append(runtime, LoadedType(line)))
             ELSE IF line = StoreLines(MainStorage, n)[1] /\ runtime # <<>>
             THEN {runtime[Len(runtime)]} \cup StoredTypes(Tail(lines), n, runtime)
             ELSE IF line = "data remove storage " \o MainStorage \o " Stack[-1]"
                     /\ runtime # <<>>
             THEN StoredTypes(Tail(lines), n,
                              SubSeq(runtime, 1, Len(runtime) - 1))
             ELSE StoredTypes(Tail(lines), n, runtime)

\* C27: a variable keeps the type it was declared with across if-blocks.
\* When n is visible with type T where write_commands starts, every line
\* that the accepted commands write into the function's file or into the
\* helper of an if-block and that stores into Variables.n stores a T; so
\* declaring n again with another type inside an if-block and assigning to
\* it there leaves the n of the enclosing scope as it was.
C27_VariableKeepsType ==
    /\ applied.function = "write_commands"
    /\ outcome.st = "ok"
    /\ VisibleType(ScopeBefore, ScopeName) # "None"
    => /\ StoredTypes(outcome.lines, ScopeName, <<>>)
             \subseteq {VisibleType(ScopeBefore, ScopeName)}
       /\ \A k \in DOMAIN outcome.files :
             StoredTypes(outcome.files[k].lines, ScopeName, <<>>)
                 \subseteq {VisibleType(ScopeBefore, ScopeName)}

====
